---- MODULE Spec2Model ----
(***************************************************************************)
(* Scoring and consistency-validation engine of the Sensory Profile 2      *)
(* backend: the response value mapper, the item taxonomy, the section and  *)
(* quadrant score calculators, the score range validator and the           *)
(* DataConsistencyValidator.                                               *)
(*                                                                         *)
(* A JavaScript string that the code inspects character by character (a    *)
(* response label) is a sequence of one-character strings.  A JavaScript   *)
(* value that can be of several types (a score, a table lookup) is a       *)
(* record tagged with its type.  A message built from a template is a      *)
(* record naming the template and the interpolated values; two messages    *)
(* are the same string exactly when the records are equal.                 *)
(***************************************************************************)
EXTENDS Integers, Sequences, FiniteSets, TLC

VARIABLES
  label,        \* argument of the last direct call of mapResponseToValue
  responses,    \* the response list: Array<{ itemId, response }>
  assessment,   \* the persisted Assessment entity (its raw score fields)
  results,      \* an AssessmentResults record handed to validateScores
  call,         \* the last invocation: [op |-> name, ret |-> returned value]
  today,        \* the system clock: the value new Date() returns
  birthDate,    \* the child's birth date, undefined when it is not supplied
  assessmentDate,   \* Assessment.getAssessmentDate()
  createdAt,    \* Assessment.getCreatedAt(), undefined before the entity is stored
  validationResult, \* a ConsistencyCheckResult handed to throwIfInvalid
  invocations,  \* the invocations of calculateScores in progress, by caller
  database,     \* the tables sensory_assessments and sensory_responses
  log           \* the entries the last invocation wrote to the logger, oldest first

\* the inputs of the date checks and of throwIfInvalid, the invocations in
\* progress and the database
environment ==
  <<today, birthDate, assessmentDate, createdAt, validationResult, invocations, database>>

vars == <<label, responses, assessment, results, call, environment, log>>

-----------------------------------------------------------------------------
(* JavaScript values                                                       *)

Num(n) == [kind |-> "number", num |-> n]
Str(s) == [kind |-> "string", str |-> s]
Undefined == [kind |-> "undefined"]
ObjectFunction == [kind |-> "function", name |-> "Object"]
ObjectPrototype == [kind |-> "object", name |-> "Object.prototype"]

IsNum(v) == v.kind = "number"

\* String(v), as applied by the + operator and by template literals
JsToString(v) ==
  CASE v.kind = "number" -> ToString(v.num)
    [] v.kind = "string" -> v.str
    [] v.kind = "undefined" -> "undefined"
    [] v.kind = "NaN" -> "NaN"
    [] v.kind = "function" -> "function Object() { [native code] }"
    [] v.kind = "object" -> "[object Object]"

\* a + b: numeric addition of two numbers, string concatenation otherwise
JsAdd(a, b) ==
  IF IsNum(a) /\ IsNum(b) THEN Num(a.num + b.num)
  ELSE Str(JsToString(a) \o JsToString(b))

\* a < n and a > n for a number n.  A string operand is converted with
\* ToNumber; every string a score can become contains the text of a
\* function or of an object, converts to NaN, and compares false.
JsLess(a, n) == IsNum(a) /\ a.num < n
JsGreater(a, n) == IsNum(a) /\ a.num > n

\* v || 0
JsOrZero(v) ==
  IF v.kind = "undefined" \/ (IsNum(v) /\ v.num = 0) \/ (v.kind = "string" /\ v.str = "")
  THEN Num(0) ELSE v

-----------------------------------------------------------------------------
(* Characters and labels                                                   *)

UpperToLower ==
  [A |-> "a", B |-> "b", C |-> "c", D |-> "d", E |-> "e", F |-> "f", G |-> "g",
   H |-> "h", I |-> "i", J |-> "j", K |-> "k", L |-> "l", M |-> "m", N |-> "n",
   O |-> "o", P |-> "p", Q |-> "q", R |-> "r", S |-> "s", T |-> "t", U |-> "u",
   V |-> "v", W |-> "w", X |-> "x", Y |-> "y", Z |-> "z"] @@ ("Ã" :> "ã")

LowerToUpper ==
  [a |-> "A", b |-> "B", c |-> "C", d |-> "D", e |-> "E", f |-> "F", g |-> "G",
   h |-> "H", i |-> "I", j |-> "J", k |-> "K", l |-> "L", m |-> "M", n |-> "N",
   o |-> "O", p |-> "P", q |-> "Q", r |-> "R", s |-> "S", t |-> "T", u |-> "U",
   v |-> "V", w |-> "W", x |-> "X", y |-> "Y", z |-> "Z"] @@ ("ã" :> "Ã")

\* the white space String.prototype.trim removes (the members used here)
WhiteSpace == {" ", "\t", "\n"}

\* String.prototype.toLowerCase
ToLowerCase(s) ==
  [i \in 1..Len(s) |-> IF s[i] \in DOMAIN UpperToLower THEN UpperToLower[s[i]] ELSE s[i]]

\* String.prototype.toUpperCase (used to build inputs only)
ToUpperCase(s) ==
  [i \in 1..Len(s) |-> IF s[i] \in DOMAIN LowerToUpper THEN LowerToUpper[s[i]] ELSE s[i]]

RECURSIVE TrimStart(_)
TrimStart(s) ==
  IF s # <<>> /\ Head(s) \in WhiteSpace THEN TrimStart(Tail(s)) ELSE s

RECURSIVE TrimEnd(_)
TrimEnd(s) ==
  IF s # <<>> /\ s[Len(s)] \in WhiteSpace THEN TrimEnd(SubSeq(s, 1, Len(s) - 1)) ELSE s

\* String.prototype.trim
Trim(s) == TrimEnd(TrimStart(s))

-----------------------------------------------------------------------------
(* Response Value Mapper                                                   *)

\* the own properties of the responseMap object literal
responseMap ==
  <<"q","u","a","s","e"," ","s","e","m","p","r","e">> :> 5 @@
  <<"f","r","e","q","u","e","n","t","e","m","e","n","t","e">> :> 4 @@
  <<"m","e","t","a","d","e"," ","d","o"," ","t","e","m","p","o">> :> 3 @@
  <<"o","c","a","s","i","o","n","a","l","m","e","n","t","e">> :> 2 @@
  <<"q","u","a","s","e"," ","n","u","n","c","a">> :> 1 @@
  <<"n","ã","o"," ","s","e"," ","a","p","l","i","c","a">> :> 0 @@
  <<"a","l","m","o","s","t"," ","a","l","w","a","y","s">> :> 5 @@
  <<"f","r","e","q","u","e","n","t","l","y">> :> 4 @@
  <<"h","a","l","f"," ","t","h","e"," ","t","i","m","e">> :> 3 @@
  <<"o","c","c","a","s","i","o","n","a","l","l","y">> :> 2 @@
  <<"a","l","m","o","s","t"," ","n","e","v","e","r">> :> 1 @@
  <<"d","o","e","s"," ","n","o","t"," ","a","p","p","l","y">> :> 0 @@
  <<"a","l","w","a","y","s">> :> 5 @@
  <<"r","a","r","e","l","y">> :> 2 @@
  <<"n","e","v","e","r">> :> 1

\* responseMap is a plain object literal, so a property read that misses the
\* own properties continues on Object.prototype
ObjectPrototypeProperties ==
  <<"c","o","n","s","t","r","u","c","t","o","r">> :> ObjectFunction @@
  <<"_","_","p","r","o","t","o","_","_">> :> ObjectPrototype

\* responseMap[key]
responseMapLookup(key) ==
  IF key \in DOMAIN responseMap THEN Num(responseMap[key])
  ELSE IF key \in DOMAIN ObjectPrototypeProperties THEN ObjectPrototypeProperties[key]
  ELSE Undefined

\* `Invalid response value: "${response}". Expected: quase sempre, ...`
InvalidResponseMessage(response) ==
  [template |-> "Invalid response value: \"${response}\". Expected: quase sempre, frequentemente, metade do tempo, ocasionalmente, quase nunca, não se aplica",
   response |-> response]

\* mapResponseToValue: the returned value, or the Error it throws
mapResponseToValue(response) ==
  LET normalizedResponse == Trim(ToLowerCase(response))
      value == responseMapLookup(normalizedResponse)
  IN IF value = Undefined
     THEN [threw |-> TRUE, message |-> InvalidResponseMessage(response)]
     ELSE [threw |-> FALSE, value |-> value]

-----------------------------------------------------------------------------
(* Legacy value mappers                                                    *)

\* the own properties of the responseMap literal of scoringService.ts
scoringService_responseMap ==
  <<"a","l","w","a","y","s">> :> 5 @@
  <<"f","r","e","q","u","e","n","t","l","y">> :> 4 @@
  <<"o","c","c","a","s","i","o","n","a","l","l","y">> :> 3 @@
  <<"r","a","r","e","l","y">> :> 2 @@
  <<"n","e","v","e","r">> :> 1

\* scoringService.ts mapResponseToValue: responseMap[response.toLowerCase()] || 0,
\* a read of a plain object literal; it never throws
scoringService_mapResponseToValue(response) ==
  LET key == ToLowerCase(response)
      value == IF key \in DOMAIN scoringService_responseMap
               THEN Num(scoringService_responseMap[key])
               ELSE IF key \in DOMAIN ObjectPrototypeProperties
               THEN ObjectPrototypeProperties[key]
               ELSE Undefined
  IN [threw |-> FALSE, value |-> JsOrZero(value)]

\* enum ResponseValue
ResponseValue ==
  [NEVER |-> 1, RARELY |-> 2, OCCASIONALLY |-> 3, FREQUENTLY |-> 4, ALWAYS |-> 5]

\* the case labels of the switch of the enum-keyed mapper
ResponseValueCases ==
  <<"a","l","w","a","y","s">> :> ResponseValue.ALWAYS @@
  <<"s","e","m","p","r","e">> :> ResponseValue.ALWAYS @@
  <<"f","r","e","q","u","e","n","t","l","y">> :> ResponseValue.FREQUENTLY @@
  <<"f","r","e","q","u","e","n","t","e","m","e","n","t","e">> :> ResponseValue.FREQUENTLY @@
  <<"o","c","c","a","s","i","o","n","a","l","l","y">> :> ResponseValue.OCCASIONALLY @@
  <<"o","c","a","s","i","o","n","a","l","m","e","n","t","e">> :> ResponseValue.OCCASIONALLY @@
  <<"r","a","r","e","l","y">> :> ResponseValue.RARELY @@
  <<"r","a","r","a","m","e","n","t","e">> :> ResponseValue.RARELY @@
  <<"n","e","v","e","r">> :> ResponseValue.NEVER @@
  <<"n","u","n","c","a">> :> ResponseValue.NEVER

\* the enum-keyed mapResponseToValue: switch (response.toLowerCase()), whose
\* default throws `Resposta inválida: ${response}`
enumScoring_mapResponseToValue(response) ==
  LET key == ToLowerCase(response)
  IN IF key \in DOMAIN ResponseValueCases
     THEN [threw |-> FALSE, value |-> Num(ResponseValueCases[key])]
     ELSE [threw |-> TRUE,
           message |-> [template |-> "Resposta inválida: ${response}", response |-> response]]

-----------------------------------------------------------------------------
(* Item Taxonomy                                                           *)

\* the keys of SectionScores, in the order the object literals list them
SectionNames ==
  <<"auditoryProcessing", "visualProcessing", "tactileProcessing",
    "movementProcessing", "bodyPositionProcessing", "oralSensitivityProcessing",
    "behavioralResponses", "socialEmotionalResponses", "attentionResponses">>

Sections == {SectionNames[i] : i \in 1..Len(SectionNames)}

\* the keys of QuadrantScores
Quadrants == {"registrationIncreased", "sensorySeek", "sensorySensitivity", "sensoryAvoidance"}

\* sectionMap with the visual section starting one item early
sectionMap_VisualFrom8 ==
  [id \in (1..14) \cup (16..85) |->
     CASE id \in 1..7 -> "auditoryProcessing"
       [] id \in 8..14 -> "visualProcessing"
       [] id \in 16..26 -> "tactileProcessing"
       [] id \in 27..34 -> "movementProcessing"
       [] id \in 35..42 -> "bodyPositionProcessing"
       [] id \in 43..52 -> "oralSensitivityProcessing"
       [] id \in 53..61 -> "behavioralResponses"
       [] id \in 62..75 -> "socialEmotionalResponses"
       [] id \in 76..85 -> "attentionResponses"]

\* sectionMap with an entry for each of the 86 items: 15 in the visual
\* section and 86 in the attention section
sectionMap_WithExcludedItems ==
  [id \in 1..86 |->
     CASE id \in 1..8 -> "auditoryProcessing"
       [] id \in 9..15 -> "visualProcessing"
       [] id \in 16..26 -> "tactileProcessing"
       [] id \in 27..34 -> "movementProcessing"
       [] id \in 35..42 -> "bodyPositionProcessing"
       [] id \in 43..52 -> "oralSensitivityProcessing"
       [] id \in 53..61 -> "behavioralResponses"
       [] id \in 62..75 -> "socialEmotionalResponses"
       [] id \in 76..86 -> "attentionResponses"]

\* sectionMap: items 15 and 86 have no entry
sectionMap ==
  [id \in (1..14) \cup (16..85) |->
     CASE id \in 1..8 -> "auditoryProcessing"
       [] id \in 9..14 -> "visualProcessing"
       [] id \in 16..26 -> "tactileProcessing"
       [] id \in 27..34 -> "movementProcessing"
       [] id \in 35..42 -> "bodyPositionProcessing"
       [] id \in 43..52 -> "oralSensitivityProcessing"
       [] id \in 53..61 -> "behavioralResponses"
       [] id \in 62..75 -> "socialEmotionalResponses"
       [] id \in 76..85 -> "attentionResponses"]

sensorySeekItems ==
  {14, 21, 22, 25, 27, 28, 30, 31, 32, 41, 48, 49, 50, 51, 55, 56, 60, 82, 83}

sensoryAvoidanceItems ==
  {1, 2, 5, 15, 18, 58, 59, 61, 63, 64, 65, 66, 67, 68, 70, 71, 72, 74, 75, 81}

sensorySensitivityItems ==
  {3, 6, 9, 13, 16, 19, 20, 44, 45, 46, 47, 52, 69, 73, 77, 78, 84}

registrationIncreasedItems ==
  {8, 12, 23, 24, 26, 33, 34, 35, 36, 37, 38, 39, 40, 53, 54, 57, 62, 76, 79, 80, 85, 86}

\* quadrantMap
quadrantMap ==
  [id \in sensorySeekItems \cup sensoryAvoidanceItems \cup sensorySensitivityItems
            \cup registrationIncreasedItems |->
     CASE id \in sensorySeekItems -> "sensorySeek"
       [] id \in sensoryAvoidanceItems -> "sensoryAvoidance"
       [] id \in sensorySensitivityItems -> "sensorySensitivity"
       [] id \in registrationIncreasedItems -> "registrationIncreased"]

\* Number.isInteger, on the item ids of the model
IsInteger(x) == x \in Int

\* validateItemId with the lower end of the range excluded
validateItemId_LowerEndExcluded(itemId) == itemId > 1 /\ itemId <= 86 /\ IsInteger(itemId)

validateItemId(itemId) == itemId >= 1 /\ itemId <= 86 /\ IsInteger(itemId)

\* the exclusion test without item 86
isExcludedFromScoring_Only15(itemId) == itemId = 15

isExcludedFromScoring(itemId) == itemId = 15 \/ itemId = 86

-----------------------------------------------------------------------------
(* Section and quadrant score calculators                                  *)

\* `Invalid item ID: ${response.itemId}`
InvalidItemIdMessage(itemId) ==
  [template |-> "Invalid item ID: ${itemId}", itemId |-> itemId]

\* `No section mapping for item ${response.itemId}`
NoSectionMappingMessage(itemId) ==
  [template |-> "No section mapping for item ${itemId}", itemId |-> itemId]

\* `Item ${response.itemId}: ${error.message}`
ItemErrorMessage(itemId, message) ==
  [template |-> "Item ${itemId}: ${message}", itemId |-> itemId, message |-> message]

\* the section callback with the label mapped before the id check and the
\* exclusion skip
SectionStep_MapsFirst(acc, response) ==
  LET mapped == mapResponseToValue(response.response)
  IN IF mapped.threw
     THEN [acc EXCEPT !.invalidResponses =
                          Append(@, ItemErrorMessage(response.itemId, mapped.message))]
     ELSE IF ~validateItemId(response.itemId)
     THEN [acc EXCEPT !.invalidResponses = Append(@, InvalidItemIdMessage(response.itemId))]
     ELSE IF isExcludedFromScoring(response.itemId)
     THEN acc
     ELSE IF mapped.value = Num(0)
     THEN acc
     ELSE IF response.itemId \in DOMAIN sectionMap
     THEN [acc EXCEPT !.scores[sectionMap[response.itemId]] = JsAdd(@, mapped.value)]
     ELSE [acc EXCEPT !.invalidResponses =
                          Append(@, NoSectionMappingMessage(response.itemId))]

\* the body of the forEach callback of calculateSectionScores
SectionStep(acc, response) ==
  IF ~validateItemId(response.itemId)
  THEN [acc EXCEPT !.invalidResponses = Append(@, InvalidItemIdMessage(response.itemId))]
  ELSE IF isExcludedFromScoring(response.itemId)
  THEN acc
  ELSE LET mapped == mapResponseToValue(response.response)
       IN IF mapped.threw
          THEN [acc EXCEPT !.invalidResponses =
                               Append(@, ItemErrorMessage(response.itemId, mapped.message))]
          ELSE IF mapped.value = Num(0)
          THEN acc
          ELSE IF response.itemId \in DOMAIN sectionMap
          THEN [acc EXCEPT !.scores[sectionMap[response.itemId]] = JsAdd(@, mapped.value)]
          ELSE [acc EXCEPT !.invalidResponses =
                               Append(@, NoSectionMappingMessage(response.itemId))]

\* the quadrant callback with the section-exclusion skip copied into it
QuadrantStep_SkipsExcluded(acc, response) ==
  IF ~validateItemId(response.itemId)
  THEN [acc EXCEPT !.invalidResponses = Append(@, InvalidItemIdMessage(response.itemId))]
  ELSE IF isExcludedFromScoring(response.itemId)
  THEN acc
  ELSE LET mapped == mapResponseToValue(response.response)
       IN IF mapped.threw
          THEN [acc EXCEPT !.invalidResponses =
                               Append(@, ItemErrorMessage(response.itemId, mapped.message))]
          ELSE IF response.itemId \in DOMAIN quadrantMap
          THEN [acc EXCEPT !.scores[quadrantMap[response.itemId]] = JsAdd(@, mapped.value)]
          ELSE acc

\* the quadrant callback recording an error for an item without a quadrant,
\* as the section callback does for an item without a section
QuadrantStep_RecordsUnmapped(acc, response) ==
  IF ~validateItemId(response.itemId)
  THEN [acc EXCEPT !.invalidResponses = Append(@, InvalidItemIdMessage(response.itemId))]
  ELSE LET mapped == mapResponseToValue(response.response)
       IN IF mapped.threw
          THEN [acc EXCEPT !.invalidResponses =
                               Append(@, ItemErrorMessage(response.itemId, mapped.message))]
          ELSE IF response.itemId \in DOMAIN quadrantMap
          THEN [acc EXCEPT !.scores[quadrantMap[response.itemId]] = JsAdd(@, mapped.value)]
          ELSE [acc EXCEPT !.invalidResponses =
                               Append(@, NoSectionMappingMessage(response.itemId))]

\* the body of the forEach callback of calculateQuadrantScores
QuadrantStep(acc, response) ==
  IF ~validateItemId(response.itemId)
  THEN [acc EXCEPT !.invalidResponses = Append(@, InvalidItemIdMessage(response.itemId))]
  ELSE LET mapped == mapResponseToValue(response.response)
       IN IF mapped.threw
          THEN [acc EXCEPT !.invalidResponses =
                               Append(@, ItemErrorMessage(response.itemId, mapped.message))]
          ELSE IF response.itemId \in DOMAIN quadrantMap
          THEN [acc EXCEPT !.scores[quadrantMap[response.itemId]] = JsAdd(@, mapped.value)]
          ELSE acc

RECURSIVE SectionLoop(_, _)
SectionLoop(acc, rs) ==
  IF rs = <<>> THEN acc ELSE SectionLoop(SectionStep(acc, Head(rs)), Tail(rs))

RECURSIVE QuadrantLoop(_, _)
QuadrantLoop(acc, rs) ==
  IF rs = <<>> THEN acc ELSE QuadrantLoop(QuadrantStep(acc, Head(rs)), Tail(rs))

calculateSectionScores(rs) ==
  SectionLoop([scores |-> [s \in Sections |-> Num(0)], invalidResponses |-> <<>>], rs)

calculateQuadrantScores(rs) ==
  QuadrantLoop([scores |-> [q \in Quadrants |-> Num(0)], invalidResponses |-> <<>>], rs)

\* the spread without the Set: every element is kept
SpreadOfSet_KeepsDuplicates(list) == list

\* [...new Set(list)]: the first occurrence of every element, in order
RECURSIVE SpreadOfSet(_)
SpreadOfSet(list) ==
  IF list = <<>> THEN <<>>
  ELSE LET init == SpreadOfSet(SubSeq(list, 1, Len(list) - 1))
           last == list[Len(list)]
       IN IF \E i \in 1..Len(init) : init[i] = last THEN init ELSE Append(init, last)

\* calculateScores reporting the size of the form as totalItems
calculateScores_TotalIsFormSize(rs) ==
  LET sectionResult == calculateSectionScores(rs)
      quadrantResult == calculateQuadrantScores(rs)
      allInvalidResponses ==
        SpreadOfSet(sectionResult.invalidResponses \o quadrantResult.invalidResponses)
  IN [sectionScores |-> sectionResult.scores,
      quadrantScores |-> quadrantResult.scores,
      totalItems |-> 86,
      validResponses |-> Len(rs) - Len(allInvalidResponses),
      invalidResponses |-> allInvalidResponses]

\* calculateScores concatenating the two message lists without the Set
calculateScores_ConcatenatesMessages(rs) ==
  LET sectionResult == calculateSectionScores(rs)
      quadrantResult == calculateQuadrantScores(rs)
      allInvalidResponses == sectionResult.invalidResponses \o quadrantResult.invalidResponses
  IN [sectionScores |-> sectionResult.scores,
      quadrantScores |-> quadrantResult.scores,
      totalItems |-> Len(rs),
      validResponses |-> Len(rs) - Len(allInvalidResponses),
      invalidResponses |-> allInvalidResponses]

calculateScores(rs) ==
  LET sectionResult == calculateSectionScores(rs)
      quadrantResult == calculateQuadrantScores(rs)
      allInvalidResponses ==
        SpreadOfSet(sectionResult.invalidResponses \o quadrantResult.invalidResponses)
  IN [sectionScores |-> sectionResult.scores,
      quadrantScores |-> quadrantResult.scores,
      totalItems |-> Len(rs),
      validResponses |-> Len(rs) - Len(allInvalidResponses),
      invalidResponses |-> allInvalidResponses]

\* an invocation starts from the section scores another invocation is
\* accumulating, when there is one
FreshSectionResult_Shared ==
  IF \E c \in DOMAIN invocations : invocations[c].pc \in {"section", "quadrant"}
  THEN invocations[CHOOSE c \in DOMAIN invocations :
                     invocations[c].pc \in {"section", "quadrant"}].sectionResult
  ELSE [scores |-> [s \in Sections |-> Num(0)], invalidResponses |-> <<>>]

\* the scores object and the invalidResponses array that every call of
\* calculateSectionScores creates
FreshSectionResult == [scores |-> [s \in Sections |-> Num(0)], invalidResponses |-> <<>>]

\* the same of calculateQuadrantScores
FreshQuadrantResult == [scores |-> [q \in Quadrants |-> Num(0)], invalidResponses |-> <<>>]

\* the object calculateScores returns, from the results of its two calls
AssessmentResultsOf(sectionResult, quadrantResult, rs) ==
  LET allInvalidResponses ==
        SpreadOfSet(sectionResult.invalidResponses \o quadrantResult.invalidResponses)
  IN [sectionScores |-> sectionResult.scores,
      quadrantScores |-> quadrantResult.scores,
      totalItems |-> Len(rs),
      validResponses |-> Len(rs) - Len(allInvalidResponses),
      invalidResponses |-> allInvalidResponses]

-----------------------------------------------------------------------------
(* Score Range Validator                                                   *)

\* getExpectedScoreRanges().sectionRanges
sectionRanges ==
  [auditoryProcessing |-> [min |-> 8, max |-> 40],
   visualProcessing |-> [min |-> 6, max |-> 30],
   tactileProcessing |-> [min |-> 11, max |-> 55],
   movementProcessing |-> [min |-> 8, max |-> 40],
   bodyPositionProcessing |-> [min |-> 8, max |-> 40],
   oralSensitivityProcessing |-> [min |-> 10, max |-> 50],
   behavioralResponses |-> [min |-> 9, max |-> 45],
   socialEmotionalResponses |-> [min |-> 14, max |-> 70],
   attentionResponses |-> [min |-> 10, max |-> 50]]

\* getExpectedScoreRanges().totalRange
totalRange == [min |-> 84, max |-> 420]

\* `${section} score ${score} is outside expected range ${range.min}-${range.max}`
SectionRangeWarning(section, score) ==
  [template |-> "${section} score ${score} is outside expected range ${min}-${max}",
   section |-> section, score |-> JsToString(score),
   min |-> sectionRanges[section].min, max |-> sectionRanges[section].max]

\* `Total score ${totalScore} is outside expected range ${min}-${max}`
TotalRangeWarning(totalScore) ==
  [template |-> "Total score ${totalScore} is outside expected range ${min}-${max}",
   score |-> JsToString(totalScore), min |-> totalRange.min, max |-> totalRange.max]

\* Object.values(sectionScores).reduce((sum, score) => sum + score, 0)
RECURSIVE TotalScore(_, _)
TotalScore(scores, n) ==
  IF n = 0 THEN Num(0) ELSE JsAdd(TotalScore(scores, n - 1), scores[SectionNames[n]])

\* the warnings pushed for the first n entries of Object.entries(sectionScores)
RECURSIVE SectionWarnings(_, _)
SectionWarnings(scores, n) ==
  IF n = 0 THEN <<>>
  ELSE LET section == SectionNames[n]
           score == scores[section]
           range == sectionRanges[section]
       IN IF JsLess(score, range.min) \/ JsGreater(score, range.max)
          THEN Append(SectionWarnings(scores, n - 1), SectionRangeWarning(section, score))
          ELSE SectionWarnings(scores, n - 1)

\* validateScores without the check of the total score
validateScores_NoTotalCheck(res) == SectionWarnings(res.sectionScores, Len(SectionNames))

validateScores(res) ==
  LET totalScore == TotalScore(res.sectionScores, Len(SectionNames))
  IN SectionWarnings(res.sectionScores, Len(SectionNames)) \o
     (IF JsLess(totalScore, totalRange.min) \/ JsGreater(totalScore, totalRange.max)
      THEN <<TotalRangeWarning(totalScore)>> ELSE <<>>)

-----------------------------------------------------------------------------
(* Assessment entity and DataConsistencyValidator                          *)

\* the raw score fields of the Assessment constructor
AssessmentScoreFields ==
  {"auditoryProcessingRawScore", "visualProcessingRawScore", "tactileProcessingRawScore",
   "movementProcessingRawScore", "bodyPositionProcessingRawScore",
   "oralSensitivityProcessingRawScore", "socialEmotionalResponsesRawScore",
   "attentionResponsesRawScore"}

\* the score getters the Assessment class defines, with the field each returns
AssessmentGetters ==
  [getAuditoryProcessingRawScore |-> "auditoryProcessingRawScore",
   getVisualProcessingRawScore |-> "visualProcessingRawScore",
   getTactileProcessingRawScore |-> "tactileProcessingRawScore",
   getMovementProcessingRawScore |-> "movementProcessingRawScore",
   getBodyPositionProcessingRawScore |-> "bodyPositionProcessingRawScore",
   getOralSensitivityProcessingRawScore |-> "oralSensitivityProcessingRawScore",
   getSocialEmotionalResponsesRawScore |-> "socialEmotionalResponsesRawScore",
   getAttentionResponsesRawScore |-> "attentionResponsesRawScore"]

\* new Assessment(childId, ..., rawScores.auditoryProcessing, ...): the eight
\* score parameters, as AssessmentService.createAssessment passes them
NewAssessment(rawScores) ==
  [auditoryProcessingRawScore |-> rawScores.auditoryProcessing,
   visualProcessingRawScore |-> rawScores.visualProcessing,
   tactileProcessingRawScore |-> rawScores.tactileProcessing,
   movementProcessingRawScore |-> rawScores.movementProcessing,
   bodyPositionProcessingRawScore |-> rawScores.bodyPositionProcessing,
   oralSensitivityProcessingRawScore |-> rawScores.oralSensitivityProcessing,
   socialEmotionalResponsesRawScore |-> rawScores.socialEmotionalResponses,
   attentionResponsesRawScore |-> rawScores.attentionResponses]

\* an Assessment constructed without the optional score parameters
AssessmentWithoutScores == [f \in AssessmentScoreFields |-> Undefined]

\* the getter validateAssessmentScoreConsistency calls for each section of
\* its storedScores literal
StoredScoreGetter ==
  [auditoryProcessing |-> "getAuditoryProcessingRawScore",
   visualProcessing |-> "getVisualProcessingRawScore",
   tactileProcessing |-> "getTactileProcessingRawScore",
   movementProcessing |-> "getMovementProcessingRawScore",
   bodyPositionProcessing |-> "getBodyPositionProcessingRawScore",
   oralSensitivityProcessing |-> "getOralSensitivityProcessingRawScore",
   behavioralResponses |-> "getBehavioralResponsesRawScore",
   socialEmotionalResponses |-> "getSocialEmotionalResponsesRawScore",
   attentionResponses |-> "getAttentionResponsesRawScore"]

\* assessment.<getter>(): calling a member the class does not define throws
\* TypeError
CallGetter(a, getter) ==
  IF getter \in DOMAIN AssessmentGetters
  THEN [threw |-> FALSE, value |-> a[AssessmentGetters[getter]]]
  ELSE [threw |-> TRUE, message |-> "assessment." \o getter \o " is not a function"]

\* `${section} score mismatch: stored=${storedScore}, calculated=${calculatedScore}`
ScoreMismatchError(section, storedScore, calculatedScore) ==
  [template |-> "${section} score mismatch: stored=${storedScore}, calculated=${calculatedScore}",
   section |-> section, stored |-> JsToString(storedScore),
   calculated |-> JsToString(calculatedScore)]

\* `Invalid responses detected: ${invalidResponses.join(', ')}`
InvalidResponsesDetectedError(invalidResponses) ==
  [template |-> "Invalid responses detected: ${invalidResponses.join(', ')}",
   invalidResponses |-> invalidResponses]

\* `Score consistency check failed: ${error.message}`
ScoreCheckFailedError(message) ==
  [template |-> "Score consistency check failed: ${message}", message |-> message]

\* the result object after the comparison loop has handled the first n
\* entries of storedScores
RECURSIVE CompareScores(_, _, _, _)
CompareScores(result, storedScores, calculatedScores, n) ==
  IF n = 0 THEN result
  ELSE LET prev == CompareScores(result, storedScores, calculatedScores, n - 1)
           section == SectionNames[n]
           checked == [prev EXCEPT !.checkedFields = Append(@, section \o "Score")]
       IN IF storedScores[section] # calculatedScores[section]
          THEN [checked EXCEPT
                  !.errors = Append(@, ScoreMismatchError(section, storedScores[section],
                                                          calculatedScores[section])),
                  !.isValid = FALSE]
          ELSE checked

\* a result object that starts invalid
NewCheckResult_StartsInvalid(checkedFields) ==
  [isValid |-> FALSE, errors |-> <<>>, warnings |-> <<>>, checkedFields |-> checkedFields]

\* the result object every check starts from
NewCheckResult(checkedFields) ==
  [isValid |-> TRUE, errors |-> <<>>, warnings |-> <<>>, checkedFields |-> checkedFields]

validateAssessmentScoreConsistency(a, rs) ==
  LET result == NewCheckResult(<<>>)
      calculatedResults == calculateScores(rs)
      getterCalls == [s \in Sections |-> CallGetter(a, StoredScoreGetter[s])]
      failing == {n \in 1..Len(SectionNames) : getterCalls[SectionNames[n]].threw}
  IN IF failing # {}
     THEN \* the storedScores literal throws at its first failing getter, before
          \* anything is pushed; the catch block records the failure
          LET first == CHOOSE n \in failing : \A m \in failing : n <= m
          IN [result EXCEPT
                !.errors = Append(@, ScoreCheckFailedError(getterCalls[SectionNames[first]].message)),
                !.isValid = FALSE]
     ELSE LET storedScores == [s \in Sections |-> JsOrZero(getterCalls[s].value)]
              compared == CompareScores(result, storedScores,
                                        calculatedResults.sectionScores, Len(SectionNames))
              checkedInvalid ==
                IF Len(calculatedResults.invalidResponses) > 0
                THEN [compared EXCEPT
                        !.errors = Append(@, InvalidResponsesDetectedError(
                                                calculatedResults.invalidResponses)),
                        !.isValid = FALSE]
                ELSE compared
          IN [checkedInvalid EXCEPT !.warnings = @ \o validateScores(calculatedResults)]

\* the ranges stretched over the two items excluded from scoring
sectionItemCounts_RawRanges ==
  [auditoryProcessing |-> [min |-> 1, max |-> 8, range |-> <<1, 8>>],
   visualProcessing |-> [min |-> 9, max |-> 15, range |-> <<9, 15>>],
   tactileProcessing |-> [min |-> 16, max |-> 26, range |-> <<16, 26>>],
   movementProcessing |-> [min |-> 27, max |-> 34, range |-> <<27, 34>>],
   bodyPositionProcessing |-> [min |-> 35, max |-> 42, range |-> <<35, 42>>],
   oralSensitivityProcessing |-> [min |-> 43, max |-> 52, range |-> <<43, 52>>],
   behavioralResponses |-> [min |-> 53, max |-> 61, range |-> <<53, 61>>],
   socialEmotionalResponses |-> [min |-> 62, max |-> 75, range |-> <<62, 75>>],
   attentionResponses |-> [min |-> 76, max |-> 86, range |-> <<76, 86>>]]

\* an entry of the logger (the assessment id the code adds is left out)
LogEntry(level, message, meta) == [level |-> level, message |-> message, meta |-> meta]

\* what validateAssessmentScoreConsistency logs: logger.error in the catch
\* block, logger.debug at the end of the try block
ScoreConsistencyLog(result) ==
  IF \E k \in 1..Len(result.errors) :
       result.errors[k].template = ScoreCheckFailedError("").template
  THEN <<LogEntry("error", "Assessment score consistency check error",
                  [error |-> result.errors[Len(result.errors)].message])>>
  ELSE <<LogEntry("debug", "Assessment score consistency check completed",
                  [isValid |-> result.isValid, errorCount |-> Len(result.errors),
                   warningCount |-> Len(result.warnings)])>>

\* sectionItemCounts of validateResponseCompleteness: min, max and range
sectionItemCounts ==
  [auditoryProcessing |-> [min |-> 1, max |-> 8, range |-> <<1, 8>>],
   visualProcessing |-> [min |-> 9, max |-> 14, range |-> <<9, 14>>],
   tactileProcessing |-> [min |-> 16, max |-> 26, range |-> <<16, 26>>],
   movementProcessing |-> [min |-> 27, max |-> 34, range |-> <<27, 34>>],
   bodyPositionProcessing |-> [min |-> 35, max |-> 42, range |-> <<35, 42>>],
   oralSensitivityProcessing |-> [min |-> 43, max |-> 52, range |-> <<43, 52>>],
   behavioralResponses |-> [min |-> 53, max |-> 61, range |-> <<53, 61>>],
   socialEmotionalResponses |-> [min |-> 62, max |-> 75, range |-> <<62, 75>>],
   attentionResponses |-> [min |-> 76, max |-> 85, range |-> <<76, 85>>]]

\* info.actual after the counting loop
ActualCount(rs, section) ==
  Cardinality({i \in 1..Len(rs) :
                 /\ rs[i].itemId >= sectionItemCounts[section].range[1]
                 /\ rs[i].itemId <= sectionItemCounts[section].range[2]})

\* `No responses found for ${section} section`
NoResponsesError(section) ==
  [template |-> "No responses found for ${section} section", section |-> section]

\* `${section} section is ${completionPercentage.toFixed(1)}% complete (${actual}/${expectedCount} items)`
\* (the percentage is kept in tenths, rounded to the nearest)
IncompleteWarning(section, actual, expectedCount) ==
  [template |-> "${section} section is ${pct}% complete (${actual}/${expectedCount} items)",
   section |-> section, pctTenths |-> (actual * 2000 + expectedCount) \div (2 * expectedCount),
   actual |-> actual, expectedCount |-> expectedCount]

\* `Duplicate responses found for items: ${[...new Set(duplicates)].join(', ')}`
DuplicateResponsesError(ids) ==
  [template |-> "Duplicate responses found for items: ${ids.join(', ')}", ids |-> ids]

\* `Invalid item IDs found: ${invalidIds.join(', ')}`
InvalidItemIdsError(ids) ==
  [template |-> "Invalid item IDs found: ${ids.join(', ')}", ids |-> ids]

\* Array.prototype.indexOf, 1-based; 0 when absent
IndexOf(list, x) ==
  IF \E i \in 1..Len(list) : list[i] = x
  THEN CHOOSE i \in 1..Len(list) : list[i] = x /\ \A j \in 1..(i - 1) : list[j] # x
  ELSE 0

\* itemIds.filter((id, index) => itemIds.indexOf(id) !== index), over the
\* first n elements
RECURSIVE RepeatedOccurrences(_, _)
RepeatedOccurrences(itemIds, n) ==
  IF n = 0 THEN <<>>
  ELSE IF IndexOf(itemIds, itemIds[n]) # n
  THEN Append(RepeatedOccurrences(itemIds, n - 1), itemIds[n])
  ELSE RepeatedOccurrences(itemIds, n - 1)

\* itemIds.filter(id => id < 1 || id > 86), over the first n elements
RECURSIVE OutOfRangeIds(_, _)
OutOfRangeIds(itemIds, n) ==
  IF n = 0 THEN <<>>
  ELSE IF itemIds[n] < 1 \/ itemIds[n] > 86
  THEN Append(OutOfRangeIds(itemIds, n - 1), itemIds[n])
  ELSE OutOfRangeIds(itemIds, n - 1)

\* half of the section instead of three quarters
IsIncomplete_BelowHalf(actual, expectedCount) == actual * 100 < 50 * expectedCount

\* completionPercentage < 75, completionPercentage being
\* (info.actual / expectedCount) * 100
IsIncomplete(actual, expectedCount) == actual * 100 < 75 * expectedCount

\* the result object after the section loop has handled the first n sections
RECURSIVE SectionCompleteness(_, _, _)
SectionCompleteness(result, rs, n) ==
  IF n = 0 THEN result
  ELSE LET prev == SectionCompleteness(result, rs, n - 1)
           section == SectionNames[n]
           info == sectionItemCounts[section]
           actual == ActualCount(rs, section)
           expectedCount == info.max - info.min + 1
       IN IF actual = 0
          THEN [prev EXCEPT !.errors = Append(@, NoResponsesError(section)),
                            !.isValid = FALSE]
          ELSE IF IsIncomplete(actual, expectedCount)
          THEN [prev EXCEPT !.warnings =
                              Append(@, IncompleteWarning(section, actual, expectedCount))]
          ELSE prev

validateResponseCompleteness(rs) ==
  LET result == NewCheckResult(<<"responses">>)
      perSection == SectionCompleteness(result, rs, Len(SectionNames))
      itemIds == [i \in 1..Len(rs) |-> rs[i].itemId]
      uniqueIds == {itemIds[i] : i \in 1..Len(itemIds)}
      duplicates == RepeatedOccurrences(itemIds, Len(itemIds))
      checkedDuplicates ==
        IF Cardinality(uniqueIds) # Len(itemIds)
        THEN [perSection EXCEPT
                !.errors = Append(@, DuplicateResponsesError(SpreadOfSet(duplicates))),
                !.isValid = FALSE]
        ELSE perSection
      invalidIds == OutOfRangeIds(itemIds, Len(itemIds))
  IN IF Len(invalidIds) > 0
     THEN [checkedDuplicates EXCEPT
             !.errors = Append(@, InvalidItemIdsError(invalidIds)),
             !.isValid = FALSE]
     ELSE checkedDuplicates

-----------------------------------------------------------------------------
(* Dates                                                                   *)
(*                                                                         *)
(* A Date is its calendar reading in the time zone of the process (year,   *)
(* month 0..11 as getMonth counts, day of month, hour of the day) or the   *)
(* Invalid Date, whose time value is NaN.  Time values are counted in      *)
(* hours instead of milliseconds, and the time zone has no clock changes.  *)

NaN == [kind |-> "NaN"]

DateOf(y, m, d, h) == [valid |-> TRUE, year |-> y, month |-> m, date |-> d, hours |-> h]
InvalidDate == [valid |-> FALSE]

IsDate(v) == "valid" \in DOMAIN v

getFullYear(d) == IF d.valid THEN Num(d.year) ELSE NaN
getMonth(d) == IF d.valid THEN Num(d.month) ELSE NaN
getDate(d) == IF d.valid THEN Num(d.date) ELSE NaN

HoursPerDay == 24

\* days from 1970-01-01 to the calendar day (y, m, d), m in 0..11
DayNumber(y, m, d) ==
  LET yy == IF m <= 1 THEN y - 1 ELSE y
      era == yy \div 400
      yoe == yy - era * 400
      mp == IF m >= 2 THEN m - 2 ELSE m + 10
      doy == (153 * mp + 2) \div 5 + d - 1
      doe == yoe * 365 + yoe \div 4 - yoe \div 100 + doy
  IN era * 146097 + doe - 719468

\* the time value of a Date: what the comparison and the subtraction of two
\* Date objects convert them to
getTime(d) ==
  IF d.valid THEN Num(DayNumber(d.year, d.month, d.date) * HoursPerDay + d.hours) ELSE NaN

\* a - b on numbers
JsSub(a, b) == IF IsNum(a) /\ IsNum(b) THEN Num(a.num - b.num) ELSE NaN

\* a === b on values that are numbers or undefined: NaN equals nothing
JsStrictEquals(a, b) == a.kind # "NaN" /\ b.kind # "NaN" /\ a = b

\* Math.floor(a / n) and Math.abs(a) on numbers, n positive
JsFloorDiv(a, n) == IF IsNum(a) THEN Num(a.num \div n) ELSE NaN
JsAbs(a) == IF IsNum(a) THEN Num(IF a.num < 0 THEN -a.num ELSE a.num) ELSE NaN

\* a > b on two Date objects
DateGreater(a, b) == IsNum(getTime(a)) /\ IsNum(getTime(b)) /\ getTime(a).num > getTime(b).num

\* a <= b in the place of a < b
DateLess_OrEqual(a, b) == IsNum(getTime(a)) /\ IsNum(getTime(b)) /\ getTime(a).num <= getTime(b).num

\* a < b on two Date objects
DateLess(a, b) == DateGreater(b, a)

-----------------------------------------------------------------------------
(* DataConsistencyValidator.validateChildAgeConsistency                    *)

BirthDateInFutureError == [template |-> "Birth date cannot be in the future"]

\* `Child age ${calculatedAge} is outside valid range (3-14 years)`
AgeOutOfRangeError(calculatedAge) ==
  [template |-> "Child age ${calculatedAge} is outside valid range (3-14 years)",
   calculatedAge |-> JsToString(calculatedAge)]

\* `Age mismatch: expected=${expectedAge}, calculated=${calculatedAge}`
AgeMismatchWarning(expectedAge, calculatedAge) ==
  [template |-> "Age mismatch: expected=${expectedAge}, calculated=${calculatedAge}",
   expectedAge |-> JsToString(expectedAge), calculatedAge |-> JsToString(calculatedAge)]

\* the difference of the two years alone
CalculatedAge_IgnoresMonthAndDay(now, birth) == JsSub(getFullYear(now), getFullYear(birth))

\* the age the validator computes from the calendar fields of now and of
\* the birth date
CalculatedAge(now, birth) ==
  LET years == JsSub(getFullYear(now), getFullYear(birth))
      monthDiff == JsSub(getMonth(now), getMonth(birth))
  IN IF \/ JsLess(monthDiff, 0)
        \/ (JsStrictEquals(monthDiff, Num(0)) /\ IsNum(getDate(birth))
            /\ JsLess(getDate(now), getDate(birth).num))
     THEN JsSub(years, Num(1))
     ELSE years

validateChildAgeConsistency(birth, expectedAge, now) ==
  LET result == NewCheckResult(<<"birthDate", "age">>)
      calculatedAge == CalculatedAge(now, birth)
      checkedFuture ==
        IF DateGreater(birth, now)
        THEN [result EXCEPT !.errors = Append(@, BirthDateInFutureError), !.isValid = FALSE]
        ELSE result
      checkedRange ==
        IF JsLess(calculatedAge, 3) \/ JsGreater(calculatedAge, 14)
        THEN [checkedFuture EXCEPT
                !.errors = Append(@, AgeOutOfRangeError(calculatedAge)), !.isValid = FALSE]
        ELSE checkedFuture
  IN IF expectedAge # Undefined /\ ~JsStrictEquals(expectedAge, calculatedAge)
     THEN [checkedRange EXCEPT
             !.warnings = Append(@, AgeMismatchWarning(expectedAge, calculatedAge))]
     ELSE checkedRange

-----------------------------------------------------------------------------
(* DataConsistencyValidator.validateAssessmentDateConsistency              *)

AssessmentInFutureError == [template |-> "Assessment date cannot be in the future"]
AssessmentBeforeBirthError ==
  [template |-> "Assessment date cannot be before child's birth date"]

\* `Assessment is ${Math.floor(daysDifference / 365)} years old`
AssessmentOldWarning(daysDifference) ==
  [template |-> "Assessment is ${Math.floor(daysDifference / 365)} years old",
   years |-> JsToString(JsFloorDiv(daysDifference, 365))]

\* `Assessment date differs from creation date by ${Math.floor(timeDifference)} days`
\* (timeDifference, a number of days with a fraction, is kept in hours)
CreationDiffersWarning(hoursDifference) ==
  [template |-> "Assessment date differs from creation date by ${Math.floor(timeDifference)} days",
   days |-> JsToString(JsFloorDiv(hoursDifference, HoursPerDay))]

validateAssessmentDateConsistency(assessmentD, childBirthDate, created, now) ==
  LET result == NewCheckResult(<<"assessmentDate", "childBirthDate", "createdAt">>)
      checkedFuture ==
        IF DateGreater(assessmentD, now)
        THEN [result EXCEPT !.errors = Append(@, AssessmentInFutureError), !.isValid = FALSE]
        ELSE result
      checkedBirth ==
        IF DateLess(assessmentD, childBirthDate)
        THEN [checkedFuture EXCEPT
                !.errors = Append(@, AssessmentBeforeBirthError), !.isValid = FALSE]
        ELSE checkedFuture
      daysDifference == JsFloorDiv(JsSub(getTime(now), getTime(assessmentD)), HoursPerDay)
      checkedOld ==
        IF JsGreater(daysDifference, 365 * 2)
        THEN [checkedBirth EXCEPT !.warnings = Append(@, AssessmentOldWarning(daysDifference))]
        ELSE checkedBirth
  IN IF IsDate(created)
     THEN LET hoursDifference == JsAbs(JsSub(getTime(assessmentD), getTime(created)))
          IN IF JsGreater(hoursDifference, 30 * HoursPerDay)
             THEN [checkedOld EXCEPT
                     !.warnings = Append(@, CreationDiffersWarning(hoursDifference))]
             ELSE checkedOld
     ELSE checkedOld

-----------------------------------------------------------------------------
(* DataConsistencyValidator.validateFullAssessment                         *)

\* a check that failed does not make the combined result invalid
CombineCheck_KeepsValid(result, check) ==
  [result EXCEPT !.errors = @ \o check.errors,
                 !.warnings = @ \o check.warnings,
                 !.checkedFields = @ \o check.checkedFields]

\* one turn of checks.forEach: the check's errors, warnings and checked
\* fields are pushed and its isValid = false is taken over
CombineCheck(result, check) ==
  [result EXCEPT !.errors = @ \o check.errors,
                 !.warnings = @ \o check.warnings,
                 !.checkedFields = @ \o check.checkedFields,
                 !.isValid = IF ~check.isValid THEN FALSE ELSE @]

\* the result object after checks.forEach has handled the first n checks
RECURSIVE CombineChecks(_, _, _)
CombineChecks(result, checks, n) ==
  IF n = 0 THEN result ELSE CombineCheck(CombineChecks(result, checks, n - 1), checks[n])

validateFullAssessment(a, rs, childBirthDate, assessmentD, created, now) ==
  LET result == NewCheckResult(<<>>)
      \* the two checks always run, then the two pushed when there is a birth date
      checks ==
        <<validateAssessmentScoreConsistency(a, rs), validateResponseCompleteness(rs)>>
          \o IF IsDate(childBirthDate)
             THEN <<validateChildAgeConsistency(childBirthDate, Undefined, now),
                    validateAssessmentDateConsistency(assessmentD, childBirthDate,
                                                      created, now)>>
             ELSE <<>>
      Combined(allChecks) == CombineChecks(result, allChecks, Len(allChecks))
      Deduplicated(combined) == [combined EXCEPT !.checkedFields = SpreadOfSet(@)]
  IN Deduplicated(Combined(checks))

\* what validateFullAssessment logs: the entry of the score check it runs,
\* then logger.info with the summary of the combined result
FullAssessmentLog(a, rs, result) ==
  ScoreConsistencyLog(validateAssessmentScoreConsistency(a, rs))
    \o <<LogEntry("info", "Full assessment validation completed",
                  [isValid |-> result.isValid, errorCount |-> Len(result.errors),
                   warningCount |-> Len(result.warnings),
                   checkedFields |-> Len(result.checkedFields)])>>

-----------------------------------------------------------------------------
(* DataConsistencyValidator.throwIfInvalid                                 *)

\* list.join(sep) on a list of strings
RECURSIVE Join(_, _)
Join(list, sep) ==
  IF Len(list) = 0 THEN ""
  ELSE IF Len(list) = 1 THEN list[1]
  ELSE Join(SubSeq(list, 1, Len(list) - 1), sep) \o sep \o list[Len(list)]

\* the truthiness of a value that is a string or undefined
JsTruthy(v) == v.kind = "string" /\ v.str # ""

\* the context without the colon
ContextPrefix_NoSeparator(context) == IF JsTruthy(context) THEN context.str ELSE ""

\* context ? `${context}: ` : ''
ContextPrefix(context) == IF JsTruthy(context) THEN context.str \o ": " ELSE ""

\* new DataConsistencyError(message, 'multiple_fields', errors, warnings)
DataConsistencyError(message, inconsistentField, expectedValue, actualValue) ==
  [name |-> "DataConsistencyError", message |-> message,
   inconsistentField |-> inconsistentField,
   expectedValue |-> expectedValue, actualValue |-> actualValue]

throwIfInvalid(result, context) ==
  IF ~result.isValid
  THEN [threw |-> TRUE,
        error |-> DataConsistencyError(ContextPrefix(context) \o Join(result.errors, "; "),
                                       "multiple_fields", result.errors, result.warnings)]
  ELSE [threw |-> FALSE]

\* what throwIfInvalid logs: logger.warn when the result is valid and
\* carries warnings
ThrowIfInvalidLog(result, context) ==
  IF result.isValid /\ Len(result.warnings) > 0
  THEN <<LogEntry("warn", "Data consistency warnings detected",
                  [context |-> context, warnings |-> result.warnings])>>
  ELSE <<>>

-----------------------------------------------------------------------------
(* AssessmentController: transformPayloadForService                        *)

\* new ValidationError(message, details)
ValidationError(message, details) ==
  [name |-> "ValidationError", message |-> message, details |-> details]

\* the payload is its response list; the child, examiner and caregiver
\* fields, which the transform copies, and the section comments are left out
transformPayloadForService(payload) ==
  LET scoringResults == calculateScores(payload.responses)
      scoreWarnings == validateScores(scoringResults)
  IN IF Len(scoringResults.invalidResponses) > 0
     THEN [threw |-> TRUE,
           error |-> ValidationError("Invalid responses detected",
                                     [invalidResponses |-> scoringResults.invalidResponses])]
     ELSE IF Len(scoreWarnings) > 0
     THEN [threw |-> TRUE,
           error |-> ValidationError("Calculated scores are outside expected ranges",
                                     [warnings |-> scoreWarnings])]
     ELSE [threw |-> FALSE,
           value |-> [responses |-> payload.responses,
                      rawScores |-> scoringResults.sectionScores]]

\* new Date(date) on the YYYY-MM-DD string of a calendar day: midnight of
\* that day (the process runs in UTC)
NewDateOfDay(day) == DateOf(day.year, day.month, day.date, 0)

\* the refinement of childSchema.birthDate on a string that passed the
\* format check: the difference of the two years is in 3..14
childSchemaBirthDate(date, now) ==
  LET birth == NewDateOfDay(date)
      age == JsSub(getFullYear(now), getFullYear(birth))
  IN IsNum(age) /\ age.num >= 3 /\ age.num <= 14

\* validateChildAge(birthDate): the age is returned, or ValidationError thrown
validateChildAge(date, now) ==
  LET age == CalculatedAge(now, NewDateOfDay(date))
  IN IF JsLess(age, 3) \/ JsGreater(age, 14)
     THEN [threw |-> TRUE,
           error |-> ValidationError(
                       [template |-> "Child age ${age} is outside the valid range (3-14 years)",
                        age |-> JsToString(age)], Undefined)]
     ELSE [threw |-> FALSE, value |-> age]

-----------------------------------------------------------------------------
(* The database, PgResponseRepository and AssessmentService                *)

\* A row of sensory_assessments is [id, user_id, scores], scores being the
\* eight raw score columns; a row of sensory_responses is [id, assessment_id,
\* item_id, response].  Ids are numbers.  The other columns and tables are
\* left out.
EmptyDatabase == [sensory_assessments |-> {}, sensory_responses |-> {}]

\* the ids of the rows that the schema inserts into sensory_items
sensory_items == 1..92

\* uuidv7(): an id no row of the table carries
uuidv7(rows) == CHOOSE id \in 1..(Cardinality(rows) + 1) : \A r \in rows : r.id # id

\* SELECT 1 FROM sensory_assessments WHERE id = $1 AND user_id = $2 finds a row
AssessmentCheck(db, assessmentId, userId) ==
  \E a \in db.sensory_assessments : a.id = assessmentId /\ a.user_id = userId

\* INSERT INTO sensory_responses ... of one Response entity, with the id
\* response.getId() || uuidv7() (an entity constructed without an id has no
\* id field); the primary key, the two foreign keys and
\* UNIQUE (assessment_id, item_id) make the statement fail
InsertResponse(db, response) ==
  LET id == IF "id" \in DOMAIN response THEN response.id ELSE uuidv7(db.sensory_responses)
      row == [id |-> id, assessment_id |-> response.assessmentId,
              item_id |-> response.itemId, response |-> response.response]
  IN IF \/ \E r \in db.sensory_responses : r.id = id
        \/ \E r \in db.sensory_responses :
             r.assessment_id = row.assessment_id /\ r.item_id = row.item_id
        \/ ~\E a \in db.sensory_assessments : a.id = row.assessment_id
        \/ row.item_id \notin sensory_items
     THEN [threw |-> TRUE, database |-> db]
     ELSE [threw |-> FALSE,
           database |-> [db EXCEPT !.sensory_responses = @ \cup {row}]]

\* the INSERT loop of saveMany on the first n responses
RECURSIVE InsertResponses(_, _, _)
InsertResponses(db, rs, n) ==
  IF n = 0 THEN [threw |-> FALSE, database |-> db]
  ELSE LET before == InsertResponses(db, rs, n - 1)
       IN IF before.threw THEN before ELSE InsertResponse(before.database, rs[n])

\* PgResponseRepository.saveMany: the ownership check reads the assessment
\* of the first response; ROLLBACK restores the tables when a statement fails
saveMany(db, rs, userId) ==
  IF Len(rs) = 0 THEN [threw |-> FALSE, database |-> db]
  ELSE IF ~AssessmentCheck(db, rs[1].assessmentId, userId)
  THEN [threw |-> TRUE, database |-> db]
  ELSE LET inserted == InsertResponses(db, rs, Len(rs))
       IN IF inserted.threw THEN [threw |-> TRUE, database |-> db] ELSE inserted

\* PgResponseRepository.deleteByAssessmentId
deleteByAssessmentId(db, assessmentId, userId) ==
  IF ~AssessmentCheck(db, assessmentId, userId)
  THEN [threw |-> TRUE, database |-> db]
  ELSE [threw |-> FALSE,
        database |-> [db EXCEPT !.sensory_responses =
                                   {r \in @ : r.assessment_id # assessmentId}]]

\* the rows in the order of their ids, as { itemId, response } objects
RECURSIVE RowsToResponses(_)
RowsToResponses(rows) ==
  IF rows = {} THEN <<>>
  ELSE LET first == CHOOSE r \in rows : \A o \in rows : r.id <= o.id
       IN <<[itemId |-> first.item_id, response |-> first.response]>>
            \o RowsToResponses(rows \ {first})

\* PgResponseRepository.findByAssessmentId(assessmentId, userId)
findByAssessmentId(db, assessmentId, userId) ==
  IF ~AssessmentCheck(db, assessmentId, userId) THEN <<>>
  ELSE RowsToResponses({r \in db.sensory_responses : r.assessment_id = assessmentId})

\* n calls of uuidv7(): ids that no row carries, each one new
RECURSIVE FreshIds(_, _)
FreshIds(used, n) ==
  IF n = 0 THEN <<>>
  ELSE LET id == CHOOSE k \in 1..(Cardinality(used) + 1) : k \notin used
       IN <<id>> \o FreshIds(used \cup {id}, n - 1)

\* responses.map(r => new Response(assessmentId, r.itemId, r.response, uuidv7()))
ResponseEntities(db, assessmentId, rs) ==
  LET Entities(ids) ==
        [i \in 1..Len(rs) |->
           [assessmentId |-> assessmentId, itemId |-> rs[i].itemId,
            response |-> rs[i].response, id |-> ids[i]]]
  IN Entities(FreshIds({r.id : r \in db.sensory_responses}, Len(rs)))

\* AssessmentService.createAssessment: the assessment row with the eight
\* scores of the payload, then the responses; the two writes are not in one
\* transaction.  The child, examiner and caregiver rows are left out.
createAssessment(db, assessmentData, userId) ==
  LET assessmentId == uuidv7(db.sensory_assessments)
      Saved(saved) ==
        LET responsesSaved ==
              saveMany(saved, ResponseEntities(saved, assessmentId, assessmentData.responses),
                       userId)
        IN [threw |-> responsesSaved.threw, database |-> responsesSaved.database,
            id |-> assessmentId]
  IN Saved([db EXCEPT !.sensory_assessments =
                         @ \cup {[id |-> assessmentId, user_id |-> userId,
                                  scores |-> NewAssessment(assessmentData.rawScores)]}])

\* AssessmentService.updateAssessment: null when the user has no such
\* assessment; the scores of the payload that are not undefined replace the
\* stored ones; a non-empty response list replaces the stored responses; the
\* assessment row is written last.  The payload is a record with the
\* properties that are present.
updateAssessment(db, id, assessmentData, userId) ==
  LET existing == {a \in db.sensory_assessments : a.id = id /\ a.user_id = userId}
      Updated(existingAssessment) ==
        LET given == IF "rawScores" \in DOMAIN assessmentData
                     THEN NewAssessment(assessmentData.rawScores)
                     ELSE AssessmentWithoutScores
            updatedAssessment ==
              [existingAssessment EXCEPT !.scores =
                 [f \in DOMAIN @ |-> IF given[f] # Undefined THEN given[f] ELSE @[f]]]
            Replaced(deleted) ==
              IF deleted.threw THEN deleted
              ELSE saveMany(deleted.database,
                            ResponseEntities(deleted.database, id, assessmentData.responses),
                            userId)
            responsesUpdated ==
              IF "responses" \in DOMAIN assessmentData /\ Len(assessmentData.responses) > 0
              THEN Replaced(deleteByAssessmentId(db, id, userId))
              ELSE [threw |-> FALSE, database |-> db]
        IN IF responsesUpdated.threw
           THEN [threw |-> TRUE, database |-> responsesUpdated.database]
           ELSE [threw |-> FALSE, found |-> TRUE,
                 database |-> [responsesUpdated.database EXCEPT !.sensory_assessments =
                                 (@ \ {existingAssessment}) \cup {updatedAssessment}]]
  IN IF existing = {} THEN [threw |-> FALSE, found |-> FALSE, database |-> db]
     ELSE Updated(CHOOSE a \in existing : TRUE)

-----------------------------------------------------------------------------
(* Inputs                                                                  *)

\* longest response list of the general specification
MaxResponses == 2

\* longest response list of the specification with repeated items
MaxRepeated == 4

\* longest response list of the specification of one whole section
MaxSection == 7

quaseSempre == <<"q","u","a","s","e"," ","s","e","m","p","r","e">>
ocasionalmente == <<"o","c","a","s","i","o","n","a","l","m","e","n","t","e">>
naoSeAplica == <<"n","ã","o"," ","s","e"," ","a","p","l","i","c","a">>
neverPadded == <<" ","N","e","v","e","r","\t">>
sometimes == <<"s","o","m","e","t","i","m","e","s">>
constructorLabel == <<"c","o","n","s","t","r","u","c","t","o","r">>

\* the recognized vocabulary: the labels written in the response table
Vocabulary == DOMAIN responseMap

\* a label in some other letter case and with white space around it
Padded(s) == <<" ", "\t">> \o s \o <<"\n">>
Capitalized(s) == [i \in 1..Len(s) |-> IF i = 1 THEN ToUpperCase(s)[1] ELSE s[i]]
Variants(s) == {s, ToUpperCase(s), Padded(s), Padded(Capitalized(s)), <<" ">> \o ToUpperCase(s)}

\* strings outside the vocabulary
OtherStrings ==
  {sometimes, <<>>, <<" ">>, <<"q","u","a","s","e">>, <<"s","e","m","p","r","e">>,
   <<"n","e","v","r">>, <<"q","u","a","s","e"," "," ","s","e","m","p","r","e">>,
   <<"n"," ","e","v","e","r">>, <<"n","e","v","e","r","!">>, <<"5">>,
   <<"t","o","S","t","r","i","n","g">>, constructorLabel,
   <<"_","_","p","r","o","t","o","_","_">>}

\* the labels given to mapResponseToValue
LabelInputs ==
  UNION {Variants(k) : k \in Vocabulary} \cup UNION {Variants(o) : o \in OtherStrings}

\* the item ids and labels of the general specification: a scoring item with
\* a quadrant (1), a scoring item without one (10), the two excluded items
\* and an id out of range
ItemPool == {0, 1, 10, 15, 86}
LabelPool == {quaseSempre, neverPadded, naoSeAplica, sometimes, constructorLabel}

\* the items and labels of the specification with repeated items
RepeatedItemPool == {0, 9, 10}
RepeatedLabelPool == {quaseSempre}

\* the items and labels of the specification of one whole section: the
\* visual items 9..15 and their neighbour 8, each answered "quase sempre"
SectionItemPool == 8..15
SectionLabelPool == {quaseSempre}

\* longest response list of the specification of the completeness check
MaxComplete == 6

\* the items of the completeness specification: the visual items, the two
\* items excluded from scoring, an attention item and two ids outside 1..86
CompletenessItemPool == {0, 9, 10, 11, 12, 13, 14, 15, 85, 86, 87}

\* the section scores handed to validateScores directly: for every section
\* the values around both ends of its expected range
ScoreSamples(section) ==
  <<Num(sectionRanges[section].min - 1), Num(sectionRanges[section].min),
    Num(sectionRanges[section].max), Num(sectionRanges[section].max + 1)>>

\* the item ids and labels of the single-response specification
SingleItemIds == 0..87
SingleLabels ==
  Vocabulary \cup {neverPadded, ToUpperCase(quaseSempre), Padded(Capitalized(naoSeAplica)),
                   sometimes, constructorLabel}

NoCall == [op |-> "none"]
NoResults == [computed |-> FALSE]

\* calendar days: the Gregorian rule for the length of a month
IsLeapYear(y) == (y % 4 = 0 /\ y % 100 # 0) \/ y % 400 = 0
DaysInMonth(y, m) ==
  IF m = 1 THEN (IF IsLeapYear(y) THEN 29 ELSE 28)
  ELSE IF m \in {3, 5, 8, 10} THEN 30 ELSE 31

\* the dates of the given years on the given <<month, day>> pairs and hours
DatesOf(years, monthDays, hours) ==
  {d \in {DateOf(y, md[1], md[2], h) : y \in years, md \in monthDays, h \in hours} :
     d.date <= DaysInMonth(d.year, d.month)}

\* readings of the system clock: a leap day, the day after a leap day's
\* anniversary, a last day of February
Clock == {DateOf(2024, 1, 29, 12), DateOf(2025, 2, 1, 12), DateOf(2026, 1, 28, 0)}

\* birth dates from a year after the clock to sixteen years before it, on
\* the days around the end of February and at both ends of the year
BirthYears == 2009..2027
BirthMonthDays == {<<0, 31>>, <<1, 28>>, <<1, 29>>, <<2, 1>>, <<11, 31>>}
BirthHours == {0, 12, 23}
BirthDates == DatesOf(BirthYears, BirthMonthDays, BirthHours)

ExpectedAges == {Undefined, Num(2), Num(3), Num(14)}

\* the date check: two clock readings thirty days apart; assessment dates
\* two years before the clock, around it and long ago; birth dates on both
\* sides of the old assessment dates; creation timestamps around the clock
\* readings
DateClock == {DateOf(2026, 2, 1, 12), DateOf(2026, 2, 31, 12)}
AssessmentDates ==
  DatesOf({2012, 2023, 2024, 2026}, {<<1, 28>>, <<1, 29>>, <<2, 1>>, <<2, 31>>}, {11, 12, 13})
ChildBirthDates == DatesOf({2012, 2024}, {<<1, 29>>, <<2, 1>>}, {12, 13})
CreationDates ==
  DatesOf({2024, 2026}, {<<1, 29>>, <<2, 1>>, <<2, 31>>}, {11, 12, 13}) \cup {Undefined}

\* the full validation: lists of up to MaxFull responses over an id outside
\* 1..86, a visual item and an excluded item; no birth date, a child of 14
\* and a child of 2; an assessment of this morning and one of three years
\* ago; with and without a creation timestamp
MaxFull == 2
FullItemPool == {0, 9, 15}
FullClock == {DateOf(2026, 2, 1, 12)}
FullBirthDates == {Undefined, DateOf(2012, 2, 1, 12), DateOf(2024, 2, 1, 12)}
FullAssessmentDates == {DateOf(2026, 2, 1, 11), DateOf(2023, 1, 28, 12)}
FullCreationDates == {Undefined, DateOf(2026, 2, 1, 12)}

\* the results handed to throwIfInvalid: either verdict, with up to
\* MaxErrors errors and up to MaxWarnings warnings, whatever the verdict
MaxErrors == 2
MaxWarnings == 2
ErrorTexts == {"No responses found for auditoryProcessing section", "Birth date cannot be in the future"}
WarningTexts == {"Assessment is 3 years old"}
SeqsUpTo(S, n) == UNION {[1..k -> S] : k \in 0..n}
ValidationResults ==
  [isValid : BOOLEAN, errors : SeqsUpTo(ErrorTexts, MaxErrors),
   warnings : SeqsUpTo(WarningTexts, MaxWarnings), checkedFields : {<<"responses">>}]
Contexts == {Undefined, Str(""), Str("createAssessment")}

\* the submission given to the transform: the items of FormIds in the order
\* of the form, two or three of every section, each answered "quase sempre"
\* except for at most MaxOther answers, which are "ocasionalmente" or the
\* unknown label "sometimes"
FormIds == <<1, 2, 9, 10, 16, 17, 18, 27, 28, 35, 36, 43, 44, 53, 54, 62, 63, 64, 76, 77>>
MaxOther == 1
OtherLabels == {ocasionalmente, sometimes}

\* the users, the number of stored assessments, and the payloads of
\* updateAssessment: with and without responses, with and without rawScores
UserIds == {"userA", "userB"}
MaxAssessments == 1
UpdatePayloads ==
  LET rs == <<[itemId |-> 1, response |-> quaseSempre]>>
      rawScores == [s \in Sections |-> Num(sectionRanges[s].max)]
  IN {[responses |-> rs], [rawScores |-> rawScores],
      [responses |-> rs, rawScores |-> rawScores]}

\* the repository calls: user U of the calls, the assessments (the first
\* is U's, the second another user's), the ids a caller gives a response,
\* the Response entities and the longest batch of saveMany
U == "userA"
AssessmentIds == {1, 2}
ResponseIds == 1..3
MaxBatch == 2
ResponseEntityPool ==
  LET withoutId == [assessmentId : AssessmentIds, itemId : {1, 2},
                    response : {quaseSempre, ocasionalmente}]
  IN withoutId \cup
       {[assessmentId |-> e.assessmentId, itemId |-> e.itemId,
         response |-> e.response, id |-> id] : e \in withoutId, id \in ResponseIds}

\* two assessments of two users with one stored response each
StoredAssessments ==
  [sensory_assessments |->
     {[id |-> 1, user_id |-> U, scores |-> AssessmentWithoutScores],
      [id |-> 2, user_id |-> "userB", scores |-> AssessmentWithoutScores]},
   sensory_responses |->
     {[id |-> 1, assessment_id |-> 1, item_id |-> 1, response |-> quaseSempre],
      [id |-> 2, assessment_id |-> 2, item_id |-> 1, response |-> quaseSempre]}]

\* the callers that invoke calculateScores at the same time, the longest
\* list one of them passes and the responses the lists are made of
MaxInvocations == 2
MaxInterleaved == 2
Callers == 1..MaxInvocations
InterleavedResponses ==
  {[itemId |-> 1, response |-> quaseSempre], [itemId |-> 0, response |-> quaseSempre]}
InterleavedLists == UNION {[1..k -> InterleavedResponses] : k \in 0..MaxInterleaved}
NoInvocations == [c \in 1..MaxInvocations |-> [pc |-> "idle"]]

\* the environment of the specifications that call no date check
InitEnvironment ==
  /\ today = DateOf(2026, 10, 1, 9)
  /\ birthDate = Undefined
  /\ assessmentDate = DateOf(2026, 10, 1, 9)
  /\ createdAt = Undefined
  /\ validationResult = NewCheckResult(<<>>)
  /\ invocations = NoInvocations
  /\ database = EmptyDatabase
  /\ log = <<>>

-----------------------------------------------------------------------------
(* Operations                                                              *)

\* a direct call of mapResponseToValue
MapLabel ==
  /\ call' = [op |-> "mapResponseToValue", ret |-> mapResponseToValue(label)]
  /\ UNCHANGED <<label, responses, assessment, results, environment>>
  /\ log' = <<>>

\* a direct call of the mapper of scoringService.ts
ScoringServiceMapLabel ==
  /\ call' = [op |-> "scoringService.mapResponseToValue",
              ret |-> scoringService_mapResponseToValue(label)]
  /\ UNCHANGED <<label, responses, assessment, results, environment>>
  /\ log' = <<>>

\* a direct call of the enum-keyed mapper
EnumScoringMapLabel ==
  /\ call' = [op |-> "enumScoring.mapResponseToValue",
              ret |-> enumScoring_mapResponseToValue(label)]
  /\ UNCHANGED <<label, responses, assessment, results, environment>>
  /\ log' = <<>>

\* the caller adds one response to the list it is about to submit
AddResponse(pool, labels, max) ==
  /\ Len(responses) < max
  /\ \E id \in pool, l \in labels :
       responses' = Append(responses, [itemId |-> id, response |-> l])
  /\ results' = NoResults
  /\ call' = NoCall
  /\ UNCHANGED <<label, assessment, environment>>
  /\ log' = <<>>

\* the caller adds the responses in the order of the form (item ids never
\* decrease; an item may be answered again)
AddInOrder(pool, labels, max) ==
  /\ Len(responses) < max
  /\ \E id \in pool, l \in labels :
       /\ responses # <<>> => id >= responses[Len(responses)].itemId
       /\ responses' = Append(responses, [itemId |-> id, response |-> l])
  /\ results' = NoResults
  /\ call' = NoCall
  /\ UNCHANGED <<label, assessment, environment>>
  /\ log' = <<>>

CalculateSectionScores ==
  /\ call' = [op |-> "calculateSectionScores", ret |-> calculateSectionScores(responses)]
  /\ UNCHANGED <<label, responses, assessment, results, environment>>
  /\ log' = <<>>

CalculateQuadrantScores ==
  /\ call' = [op |-> "calculateQuadrantScores", ret |-> calculateQuadrantScores(responses)]
  /\ UNCHANGED <<label, responses, assessment, results, environment>>
  /\ log' = <<>>

CalculateScores ==
  /\ call' = [op |-> "calculateScores", ret |-> calculateScores(responses)]
  /\ results' = calculateScores(responses)
  /\ UNCHANGED <<label, responses, assessment, environment>>
  /\ log' = <<>>

\* validateScores applied to the AssessmentResults the caller holds
ValidateScores ==
  /\ results # NoResults
  /\ call' = [op |-> "validateScores", ret |-> validateScores(results)]
  /\ UNCHANGED <<label, responses, assessment, results, environment>>
  /\ log' = <<>>

\* AssessmentService.createAssessment builds the Assessment from the raw
\* scores computed for the submitted responses
CreateAssessment ==
  /\ results # NoResults
  /\ assessment' = NewAssessment(results.sectionScores)
  /\ call' = [op |-> "createAssessment", ret |-> assessment']
  /\ UNCHANGED <<label, responses, results, environment>>
  /\ log' = <<>>

ValidateAssessmentScoreConsistency ==
  /\ call' = [op |-> "validateAssessmentScoreConsistency",
              ret |-> validateAssessmentScoreConsistency(assessment, responses)]
  /\ log' = ScoreConsistencyLog(validateAssessmentScoreConsistency(assessment, responses))
  /\ UNCHANGED <<label, responses, assessment, results, environment>>

ValidateResponseCompleteness ==
  /\ call' = [op |-> "validateResponseCompleteness",
              ret |-> validateResponseCompleteness(responses)]
  /\ UNCHANGED <<label, responses, assessment, results, environment>>
  /\ log' = <<>>

\* validateChildAgeConsistency(birthDate, expectedAge) at the time the clock
\* shows
ValidateChildAgeConsistency ==
  /\ IsDate(birthDate)
  /\ \E expectedAge \in ExpectedAges :
       call' = [op |-> "validateChildAgeConsistency", expectedAge |-> expectedAge,
                ret |-> validateChildAgeConsistency(birthDate, expectedAge, today)]
  /\ UNCHANGED <<label, responses, assessment, results, environment>>
  /\ log' = <<>>

\* validateAssessmentDateConsistency(assessmentDate, childBirthDate, createdAt)
\* at the time the clock shows
ValidateAssessmentDateConsistency ==
  /\ IsDate(birthDate)
  /\ call' = [op |-> "validateAssessmentDateConsistency",
              ret |-> validateAssessmentDateConsistency(assessmentDate, birthDate,
                                                        createdAt, today)]
  /\ log' = <<>>
  /\ UNCHANGED <<label, responses, assessment, results, environment>>

\* validateFullAssessment(assessment, responses, childBirthDate) at the time
\* the clock shows
ValidateFullAssessment ==
  /\ call' = [op |-> "validateFullAssessment",
              ret |-> validateFullAssessment(assessment, responses, birthDate,
                                             assessmentDate, createdAt, today)]
  /\ log' = FullAssessmentLog(assessment, responses, call'.ret)
  /\ UNCHANGED <<label, responses, assessment, results, environment>>

\* throwIfInvalid(validationResult, context)
ThrowIfInvalid ==
  /\ \E context \in Contexts :
       /\ call' = [op |-> "throwIfInvalid", context |-> context,
                   ret |-> throwIfInvalid(validationResult, context)]
       /\ log' = ThrowIfInvalidLog(validationResult, context)
  /\ UNCHANGED <<label, responses, assessment, results, environment>>

\* the caller answers the next item of the form
AddFormResponse ==
  /\ Len(responses) < Len(FormIds)
  /\ \E l \in {quaseSempre} \cup OtherLabels :
       /\ l \in OtherLabels =>
            Cardinality({i \in 1..Len(responses) : responses[i].response \in OtherLabels})
              < MaxOther
       /\ responses' = Append(responses, [itemId |-> FormIds[Len(responses) + 1],
                                          response |-> l])
  /\ results' = NoResults
  /\ call' = NoCall
  /\ log' = <<>>
  /\ UNCHANGED <<label, assessment, environment>>

\* transformPayloadForService on the submission
TransformPayloadForService ==
  /\ call' = [op |-> "transformPayloadForService",
              ret |-> transformPayloadForService([responses |-> responses])]
  /\ log' = <<>>
  /\ UNCHANGED <<label, responses, assessment, results, environment>>

\* the createAssessment handler for user userId: the transform of the
\* submission, then AssessmentService.createAssessment on what it returns
CreateAssessmentFromPayload(userId) ==
  /\ Cardinality(database.sensory_assessments) < MaxAssessments
  /\ LET Handled(transformed) ==
           IF transformed.threw
           THEN /\ call' = [op |-> "createAssessment", ret |-> transformed]
                /\ UNCHANGED database
           ELSE LET Created(created) ==
                      /\ call' = [op |-> "createAssessment",
                                  ret |-> [threw |-> created.threw, id |-> created.id]]
                      /\ database' = created.database
                IN Created(createAssessment(database, transformed.value, userId))
     IN Handled(transformPayloadForService([responses |-> responses]))
  /\ log' = <<>>
  /\ UNCHANGED <<label, responses, assessment, results, today, birthDate,
                 assessmentDate, createdAt, validationResult, invocations>>

\* the updateAssessment handler for user userId: the payload that passed
\* updateAssessmentSchema goes to AssessmentService.updateAssessment as it is
UpdateAssessment(userId) ==
  /\ \E id \in 1..MaxAssessments, assessmentData \in UpdatePayloads :
       LET Updated(updated) ==
             /\ call' = [op |-> "updateAssessment",
                         ret |-> [threw |-> updated.threw,
                                  found |-> ~updated.threw /\ updated.found]]
             /\ database' = updated.database
       IN Updated(updateAssessment(database, id, assessmentData, userId))
  /\ log' = <<>>
  /\ UNCHANGED <<label, responses, assessment, results, today, birthDate,
                 assessmentDate, createdAt, validationResult, invocations>>

\* user userId re-reads an assessment with its responses and runs
\* validateAssessmentScoreConsistency on what was read
ValidateStoredAssessment(userId) ==
  /\ \E a \in database.sensory_assessments :
       /\ a.user_id = userId
       /\ LET Validated(stored, rs) ==
                /\ call' = [op |-> "validateStoredAssessment", id |-> a.id,
                            read |-> rs,
                            ret |-> validateAssessmentScoreConsistency(stored, rs)]
                /\ log' = ScoreConsistencyLog(validateAssessmentScoreConsistency(stored, rs))
          IN Validated(a.scores, findByAssessmentId(database, a.id, userId))
  /\ UNCHANGED <<label, responses, assessment, results, environment>>

\* PgResponseRepository.save(response, userId)
Save(userId) ==
  /\ \E response \in ResponseEntityPool :
       LET Saved(saved) ==
             /\ call' = [op |-> "save", ret |-> [threw |-> saved.threw]]
             /\ database' = saved.database
       IN Saved(IF AssessmentCheck(database, response.assessmentId, userId)
                THEN InsertResponse(database, response)
                ELSE [threw |-> TRUE, database |-> database])
  /\ log' = <<>>
  /\ UNCHANGED <<label, responses, assessment, results, today, birthDate,
                 assessmentDate, createdAt, validationResult, invocations>>

\* PgResponseRepository.saveMany(responses, userId)
SaveMany(userId) ==
  /\ \E n \in 0..MaxBatch : \E rs \in [1..n -> ResponseEntityPool] :
       LET Saved(saved) ==
             /\ call' = [op |-> "saveMany", ret |-> [threw |-> saved.threw]]
             /\ database' = saved.database
       IN Saved(saveMany(database, rs, userId))
  /\ log' = <<>>
  /\ UNCHANGED <<label, responses, assessment, results, today, birthDate,
                 assessmentDate, createdAt, validationResult, invocations>>

\* PgResponseRepository.update(response, userId): the ownership check reads
\* the assessment id the entity carries, the UPDATE selects the row by the
\* entity's id
Update(userId) ==
  /\ \E response \in {e \in ResponseEntityPool : "id" \in DOMAIN e} :
       IF /\ AssessmentCheck(database, response.assessmentId, userId)
          /\ \E r \in database.sensory_responses : r.id = response.id
       THEN /\ call' = [op |-> "update", ret |-> [threw |-> FALSE]]
            /\ database' = [database EXCEPT !.sensory_responses =
                              {IF r.id = response.id
                               THEN [r EXCEPT !.response = response.response]
                               ELSE r : r \in @}]
       ELSE /\ call' = [op |-> "update", ret |-> [threw |-> TRUE]]
            /\ UNCHANGED database
  /\ log' = <<>>
  /\ UNCHANGED <<label, responses, assessment, results, today, birthDate,
                 assessmentDate, createdAt, validationResult, invocations>>

\* PgResponseRepository.delete(id, userId): the ownership check reads the
\* assessment of the stored row
Delete(userId) ==
  /\ \E id \in ResponseIds :
       LET found == {r \in database.sensory_responses : r.id = id}
       IN IF found = {}
          THEN /\ call' = [op |-> "delete", ret |-> [threw |-> FALSE]]
               /\ UNCHANGED database
          ELSE IF \E r \in found : ~AssessmentCheck(database, r.assessment_id, userId)
          THEN /\ call' = [op |-> "delete", ret |-> [threw |-> TRUE]]
               /\ UNCHANGED database
          ELSE /\ call' = [op |-> "delete", ret |-> [threw |-> FALSE]]
               /\ database' = [database EXCEPT !.sensory_responses = @ \ found]
  /\ log' = <<>>
  /\ UNCHANGED <<label, responses, assessment, results, today, birthDate,
                 assessmentDate, createdAt, validationResult, invocations>>

\* PgResponseRepository.deleteByAssessmentId(assessmentId, userId)
DeleteByAssessmentId(userId) ==
  /\ \E assessmentId \in AssessmentIds :
       LET Deleted(deleted) ==
             /\ call' = [op |-> "deleteByAssessmentId", ret |-> [threw |-> deleted.threw]]
             /\ database' = deleted.database
       IN Deleted(deleteByAssessmentId(database, assessmentId, userId))
  /\ log' = <<>>
  /\ UNCHANGED <<label, responses, assessment, results, today, birthDate,
                 assessmentDate, createdAt, validationResult, invocations>>

\* the request schema refines the birth date of the child
ChildSchemaBirthDate ==
  /\ IsDate(birthDate)
  /\ call' = [op |-> "childSchema.birthDate",
              ret |-> [accepted |-> childSchemaBirthDate(birthDate, today)]]
  /\ log' = <<>>
  /\ UNCHANGED <<label, responses, assessment, results, environment>>

\* validateChildAge on the birth date of the child
ValidateChildAge ==
  /\ IsDate(birthDate)
  /\ call' = [op |-> "validateChildAge", ret |-> validateChildAge(birthDate, today)]
  /\ log' = <<>>
  /\ UNCHANGED <<label, responses, assessment, results, environment>>

\* caller c calls calculateScores(list); the call enters
\* calculateSectionScores, which creates its accumulators
Invoke(c) ==
  /\ invocations[c].pc = "idle"
  /\ \E list \in InterleavedLists :
       invocations' = [invocations EXCEPT ![c] =
                         [pc |-> "section", args |-> list, index |-> 0,
                          sectionResult |-> FreshSectionResult,
                          quadrantResult |-> FreshQuadrantResult]]
  /\ log' = <<>>
  /\ UNCHANGED <<label, responses, assessment, results, call, today, birthDate,
                 assessmentDate, createdAt, validationResult, database>>

\* one turn of responses.forEach in calculateSectionScores
SectionIteration(c) ==
  /\ invocations[c].pc = "section"
  /\ invocations[c].index < Len(invocations[c].args)
  /\ invocations' = [invocations EXCEPT
                       ![c].sectionResult = SectionStep(@, invocations[c].args[invocations[c].index + 1]),
                       ![c].index = @ + 1]
  /\ log' = <<>>
  /\ UNCHANGED <<label, responses, assessment, results, call, today, birthDate,
                 assessmentDate, createdAt, validationResult, database>>

\* calculateSectionScores returns and calculateQuadrantScores is entered
EnterQuadrants(c) ==
  /\ invocations[c].pc = "section"
  /\ invocations[c].index = Len(invocations[c].args)
  /\ invocations' = [invocations EXCEPT ![c].pc = "quadrant", ![c].index = 0,
                                         ![c].quadrantResult = FreshQuadrantResult]
  /\ log' = <<>>
  /\ UNCHANGED <<label, responses, assessment, results, call, today, birthDate,
                 assessmentDate, createdAt, validationResult, database>>

\* one turn of responses.forEach in calculateQuadrantScores
QuadrantIteration(c) ==
  /\ invocations[c].pc = "quadrant"
  /\ invocations[c].index < Len(invocations[c].args)
  /\ invocations' = [invocations EXCEPT
                       ![c].quadrantResult = QuadrantStep(@, invocations[c].args[invocations[c].index + 1]),
                       ![c].index = @ + 1]
  /\ log' = <<>>
  /\ UNCHANGED <<label, responses, assessment, results, call, today, birthDate,
                 assessmentDate, createdAt, validationResult, database>>

\* calculateScores combines the two results and returns to caller c
Return(c) ==
  /\ invocations[c].pc = "quadrant"
  /\ invocations[c].index = Len(invocations[c].args)
  /\ invocations' = [invocations EXCEPT ![c] =
                       [pc |-> "returned", args |-> invocations[c].args,
                        ret |-> AssessmentResultsOf(invocations[c].sectionResult,
                                                    invocations[c].quadrantResult,
                                                    invocations[c].args)]]
  /\ log' = <<>>
  /\ UNCHANGED <<label, responses, assessment, results, call, today, birthDate,
                 assessmentDate, createdAt, validationResult, database>>

-----------------------------------------------------------------------------
(* Specifications                                                          *)

\* the general specification: response lists up to MaxResponses
Init ==
  /\ label = <<>>
  /\ responses = <<>>
  /\ assessment = AssessmentWithoutScores
  /\ results = NoResults
  /\ call = NoCall
  /\ InitEnvironment

Next ==
  \/ AddResponse(ItemPool, LabelPool, MaxResponses)
  \/ CalculateSectionScores
  \/ CalculateQuadrantScores
  \/ CalculateScores
  \/ ValidateScores
  \/ CreateAssessment
  \/ ValidateAssessmentScoreConsistency
  \/ ValidateResponseCompleteness

Spec == Init /\ [][Next]_vars

\* the mapper alone, on every input label
InitMapper ==
  /\ label \in LabelInputs
  /\ responses = <<>>
  /\ assessment = AssessmentWithoutScores
  /\ results = NoResults
  /\ call = NoCall
  /\ InitEnvironment

NextMapper == MapLabel

SpecMapper == InitMapper /\ [][NextMapper]_vars

\* the three mappers on every label of the mapper specification
NextAliases == MapLabel \/ ScoringServiceMapLabel \/ EnumScoringMapLabel

SpecAliases == InitMapper /\ [][NextAliases]_vars

\* one response, over every item id and every label of the vocabulary
InitSingle ==
  /\ label = <<>>
  /\ \E id \in SingleItemIds, l \in SingleLabels :
       responses = <<[itemId |-> id, response |-> l]>>
  /\ assessment = AssessmentWithoutScores
  /\ results = NoResults
  /\ call = NoCall
  /\ InitEnvironment

NextSingle ==
  \/ CalculateSectionScores
  \/ CalculateQuadrantScores
  \/ CalculateScores

SpecSingle == InitSingle /\ [][NextSingle]_vars

\* response lists that repeat a few items
NextRepeated ==
  \/ AddResponse(RepeatedItemPool, RepeatedLabelPool, MaxRepeated)
  \/ CalculateScores
  \/ ValidateResponseCompleteness

SpecRepeated == Init /\ [][NextRepeated]_vars

\* the responses of one section, submitted in the order of the form
NextSection ==
  \/ AddInOrder(SectionItemPool, SectionLabelPool, MaxSection)
  \/ CalculateScores
  \/ ValidateScores

SpecSection == Init /\ [][NextSection]_vars

\* validateScores on AssessmentResults of any section scores
InitRange ==
  /\ label = <<>>
  /\ responses = <<>>
  /\ assessment = AssessmentWithoutScores
  /\ \E choice \in [Sections -> 1..4] :
       results = [sectionScores |-> [sec \in Sections |-> ScoreSamples(sec)[choice[sec]]],
                     quadrantScores |-> [q \in Quadrants |-> Num(0)],
                     totalItems |-> 0, validResponses |-> 0, invalidResponses |-> <<>>]
  /\ call = NoCall
  /\ InitEnvironment

NextRange == ValidateScores

SpecRange == InitRange /\ [][NextRange]_vars

\* the completeness check on response lists in the order of the form
NextComplete ==
  \/ AddInOrder(CompletenessItemPool, SectionLabelPool, MaxComplete)
  \/ ValidateResponseCompleteness

SpecComplete == Init /\ [][NextComplete]_vars

\* the age check on every birth date of the pool at every clock reading
InitAge ==
  /\ label = <<>>
  /\ responses = <<>>
  /\ assessment = AssessmentWithoutScores
  /\ results = NoResults
  /\ call = NoCall
  /\ today \in Clock
  /\ birthDate \in BirthDates
  /\ assessmentDate = today
  /\ createdAt = Undefined
  /\ validationResult = NewCheckResult(<<>>)
  /\ invocations = NoInvocations
  /\ database = EmptyDatabase
  /\ log = <<>>

NextAge == ValidateChildAgeConsistency

SpecAge == InitAge /\ [][NextAge]_vars

\* the date check on every combination of the date pools
InitDate ==
  /\ label = <<>>
  /\ responses = <<>>
  /\ assessment = AssessmentWithoutScores
  /\ results = NoResults
  /\ call = NoCall
  /\ today \in DateClock
  /\ birthDate \in ChildBirthDates
  /\ assessmentDate \in AssessmentDates
  /\ createdAt \in CreationDates
  /\ validationResult = NewCheckResult(<<>>)
  /\ invocations = NoInvocations
  /\ database = EmptyDatabase
  /\ log = <<>>

NextDate == ValidateAssessmentDateConsistency

SpecDate == InitDate /\ [][NextDate]_vars

\* the full validation of a stored assessment
InitFull ==
  /\ label = <<>>
  /\ responses = <<>>
  /\ assessment = AssessmentWithoutScores
  /\ results = NoResults
  /\ call = NoCall
  /\ today \in FullClock
  /\ birthDate \in FullBirthDates
  /\ assessmentDate \in FullAssessmentDates
  /\ createdAt \in FullCreationDates
  /\ validationResult = NewCheckResult(<<>>)
  /\ invocations = NoInvocations
  /\ database = EmptyDatabase
  /\ log = <<>>

NextFull ==
  \/ AddResponse(FullItemPool, SectionLabelPool, MaxFull)
  \/ CalculateScores
  \/ CreateAssessment
  \/ ValidateFullAssessment

SpecFull == InitFull /\ [][NextFull]_vars

\* each of the five checks of the DataConsistencyValidator on the inputs of
\* the full validation
NextValidators ==
  \/ AddResponse(FullItemPool, SectionLabelPool, MaxFull)
  \/ CalculateScores
  \/ CreateAssessment
  \/ ValidateAssessmentScoreConsistency
  \/ ValidateChildAgeConsistency
  \/ ValidateResponseCompleteness
  \/ ValidateAssessmentDateConsistency
  \/ ValidateFullAssessment

SpecValidators == InitFull /\ [][NextValidators]_vars

\* throwIfInvalid on every result of the pool
InitThrow ==
  /\ label = <<>>
  /\ responses = <<>>
  /\ assessment = AssessmentWithoutScores
  /\ results = NoResults
  /\ call = NoCall
  /\ today = DateOf(2026, 10, 1, 9)
  /\ birthDate = Undefined
  /\ assessmentDate = DateOf(2026, 10, 1, 9)
  /\ createdAt = Undefined
  /\ validationResult \in ValidationResults
  /\ invocations = NoInvocations
  /\ database = EmptyDatabase
  /\ log = <<>>

NextThrow == ThrowIfInvalid

SpecThrow == InitThrow /\ [][NextThrow]_vars

\* the assessment-creation transform on a growing submission
NextTransform ==
  \/ AddFormResponse
  \/ TransformPayloadForService

SpecTransform == Init /\ [][NextTransform]_vars

\* assessments created from a submission, updated, re-read and validated
NextService ==
  \/ AddFormResponse
  \/ \E userId \in UserIds : CreateAssessmentFromPayload(userId)
  \/ \E userId \in UserIds : UpdateAssessment(userId)
  \/ \E userId \in UserIds : ValidateStoredAssessment(userId)

SpecService == Init /\ [][NextService]_vars

\* the calls of user U on the response repository of two users' assessments
InitRepository ==
  /\ label = <<>>
  /\ responses = <<>>
  /\ assessment = AssessmentWithoutScores
  /\ results = NoResults
  /\ call = NoCall
  /\ today = DateOf(2026, 10, 1, 9)
  /\ birthDate = Undefined
  /\ assessmentDate = DateOf(2026, 10, 1, 9)
  /\ createdAt = Undefined
  /\ validationResult = NewCheckResult(<<>>)
  /\ invocations = NoInvocations
  /\ database = StoredAssessments
  /\ log = <<>>

NextRepository ==
  \/ Save(U)
  \/ SaveMany(U)
  \/ Update(U)
  \/ Delete(U)
  \/ DeleteByAssessmentId(U)

SpecRepository == InitRepository /\ [][NextRepository]_vars

\* the three age rules on every birth date of the pool at every clock reading
NextAgeRules ==
  \/ ChildSchemaBirthDate
  \/ ValidateChildAge
  \/ ValidateChildAgeConsistency

SpecAgeRules == InitAge /\ [][NextAgeRules]_vars

\* invocations of calculateScores interleaved at every turn of their loops
\* (the calls of one JavaScript thread, which run one after the other, are
\* among these interleavings)
NextInterleaved ==
  \E c \in Callers :
    \/ Invoke(c)
    \/ SectionIteration(c)
    \/ EnterQuadrants(c)
    \/ QuadrantIteration(c)
    \/ Return(c)

SpecInterleaved == Init /\ [][NextInterleaved]_vars

-----------------------------------------------------------------------------
(* Properties                                                              *)

\* label is key, up to letter case and surrounding white space
MatchesKey(l, key) ==
  \E i \in 1..(Len(l) + 1), j \in 0..Len(l) :
    /\ j - i + 1 = Len(key)
    /\ \A k \in 1..Len(key) : ToLowerCase(<<l[i + k - 1]>>) = <<key[k]>>
    /\ \A k \in (1..(i - 1)) \cup ((j + 1)..Len(l)) : l[k] \in WhiteSpace

Recognized(l) == \E key \in Vocabulary : MatchesKey(l, key)

\* the table value of a recognized label
TableValue(l) == responseMap[CHOOSE key \in Vocabulary : MatchesKey(l, key)]

\* C1: mapResponseToValue returns the table value, in 0..5, for every label
\* of the vocabulary in any letter case and with any surrounding white
\* space, and for every other string it throws an error whose message
\* carries the label exactly as supplied.
C1_MapperContract ==
  call.op = "mapResponseToValue" =>
    IF Recognized(label)
    THEN /\ ~call.ret.threw
         /\ call.ret.value = Num(TableValue(label))
         /\ TableValue(label) \in 0..5
    ELSE /\ call.ret.threw
         /\ call.ret.message.response = label

\* C2: a single response (id, label), id in 1..86 other than 15 and 86 and
\* label recognized with value v, gives v in the section of the item and 0
\* in each of the other 8 sections, in calculateSectionScores and in
\* calculateScores.
C2_SingleResponseScore ==
  LET r == responses[1]
      scores == IF call.op = "calculateScores" THEN call.ret.sectionScores
                ELSE call.ret.scores
  IN (/\ call.op \in {"calculateSectionScores", "calculateScores"}
      /\ Len(responses) = 1
      /\ r.itemId \in (1..86) \ {15, 86}
      /\ Recognized(r.response))
     => /\ DOMAIN scores = Sections
        /\ Cardinality(Sections) = 9
        /\ \A sec \in Sections :
             scores[sec] = IF sec = sectionMap[r.itemId]
                           THEN Num(TableValue(r.response)) ELSE Num(0)

\* C2 witness: item 85 answered "quase sempre" scored 5 in attentionResponses
C2_Witness ==
  /\ call.op = "calculateScores"
  /\ responses = <<[itemId |-> 85, response |-> ToUpperCase(quaseSempre)]>>
  /\ call.ret.sectionScores["attentionResponses"] = Num(5)
  /\ call.ret.sectionScores["auditoryProcessing"] = Num(0)

\* the list without the responses for the given items
RECURSIVE WithoutItems(_, _)
WithoutItems(rs, ids) ==
  IF rs = <<>> THEN <<>>
  ELSE IF Head(rs).itemId \in ids THEN WithoutItems(Tail(rs), ids)
  ELSE <<Head(rs)>> \o WithoutItems(Tail(rs), ids)

\* C3: the responses for items 15 and 86 add nothing to any section total,
\* whatever their label, while a response for item 15 with a recognized label
\* of value v adds v to sensoryAvoidance in calculateQuadrantScores.
C3_ExcludedItems ==
  /\ call.op = "calculateSectionScores" =>
       call.ret.scores = calculateSectionScores(WithoutItems(responses, {15, 86})).scores
  /\ call.op = "calculateScores" =>
       call.ret.sectionScores = calculateSectionScores(WithoutItems(responses, {15, 86})).scores
  /\ (/\ call.op \in {"calculateQuadrantScores", "calculateScores"}
      /\ responses # <<>>
      /\ responses[Len(responses)].itemId = 15
      /\ Recognized(responses[Len(responses)].response))
     => LET before == calculateQuadrantScores(SubSeq(responses, 1, Len(responses) - 1)).scores
            v == TableValue(responses[Len(responses)].response)
            after == IF call.op = "calculateScores" THEN call.ret.quadrantScores
                     ELSE call.ret.scores
        IN after = [before EXCEPT !["sensoryAvoidance"] = JsAdd(@, Num(v))]

\* C3 witness: item 15 answered "quase sempre" after item 1: nothing in any
\* section for item 15, and 5 + 5 in sensoryAvoidance
C3_Witness ==
  /\ call.op = "calculateScores"
  /\ responses = <<[itemId |-> 1, response |-> quaseSempre],
                   [itemId |-> 15, response |-> quaseSempre]>>
  /\ call.ret.sectionScores["visualProcessing"] = Num(0)
  /\ call.ret.sectionScores["auditoryProcessing"] = Num(5)
  /\ call.ret.quadrantScores["sensoryAvoidance"] = Num(10)

\* C4: calculateScores on the empty list returns the 9 section scores and
\* the 4 quadrant scores all 0, totalItems = 0, validResponses = 0 and no
\* invalid response.
C4_EmptyList ==
  (call.op = "calculateScores" /\ responses = <<>>) =>
    /\ call.ret.sectionScores = [sec \in Sections |-> Num(0)]
    /\ Cardinality(DOMAIN call.ret.sectionScores) = 9
    /\ call.ret.quadrantScores = [q \in Quadrants |-> Num(0)]
    /\ Cardinality(DOMAIN call.ret.quadrantScores) = 4
    /\ call.ret.totalItems = 0
    /\ call.ret.validResponses = 0
    /\ call.ret.invalidResponses = <<>>

\* C4 witness: calculateScores has run on the empty list
C4_Witness ==
  /\ call.op = "calculateScores"
  /\ responses = <<>>
  /\ call.ret.totalItems = 0

\* a response the claims call invalid: id outside 1..86 or label not recognized
InvalidResponse(r) == r.itemId \notin 1..86 \/ ~Recognized(r.response)

RECURSIVE ValidOnly(_)
ValidOnly(rs) ==
  IF rs = <<>> THEN <<>>
  ELSE IF InvalidResponse(Head(rs)) THEN ValidOnly(Tail(rs))
  ELSE <<Head(rs)>> \o ValidOnly(Tail(rs))

\* an entry of invalidResponses that reports response r
Reports(message, r) ==
  /\ message.itemId = r.itemId
  /\ r.itemId \in 1..86 => /\ "message" \in DOMAIN message
                           /\ message.message.response = r.response

\* C5: for any response list every response with an id outside 1..86 or an
\* unrecognized label is listed in invalidResponses, and the section and
\* quadrant scores are those of the list without the invalid responses.
C5_InvalidInputExcluded ==
  call.op = "calculateScores" =>
    /\ \A i \in 1..Len(responses) :
         InvalidResponse(responses[i]) =>
           \E k \in 1..Len(call.ret.invalidResponses) :
             Reports(call.ret.invalidResponses[k], responses[i])
    /\ call.ret.sectionScores = calculateScores(ValidOnly(responses)).sectionScores
    /\ call.ret.quadrantScores = calculateScores(ValidOnly(responses)).quadrantScores

\* the elements of a list
Elements(list) == {list[i] : i \in 1..Len(list)}

\* C6: calculateScores reports totalItems = length of the list,
\* invalidResponses = the union without duplicates of the messages of the
\* two calculators, and validResponses = totalItems - length(invalidResponses).
C6_CombinedResult ==
  call.op = "calculateScores" =>
    LET inv == call.ret.invalidResponses
    IN /\ call.ret.totalItems = Len(responses)
       /\ \A i, j \in 1..Len(inv) : inv[i] = inv[j] => i = j
       /\ Elements(inv) = Elements(calculateSectionScores(responses).invalidResponses)
                            \cup Elements(calculateQuadrantScores(responses).invalidResponses)
       /\ call.ret.validResponses = call.ret.totalItems - Len(inv)

\* C6 witness: two responses with the same out-of-range id; each calculator
\* records the same message twice and the union keeps it once
C6_Witness ==
  /\ call.op = "calculateScores"
  /\ responses = <<[itemId |-> 0, response |-> quaseSempre],
                   [itemId |-> 0, response |-> sometimes]>>
  /\ Len(calculateSectionScores(responses).invalidResponses) = 2
  /\ call.ret.invalidResponses = <<InvalidItemIdMessage(0)>>
  /\ call.ret.validResponses = 1

\* the number of scoring items of each section, as the expected ranges
\* document it ("8 items x 1-5 scale", ...)
ScoringItemCount ==
  [auditoryProcessing |-> 8, visualProcessing |-> 6, tactileProcessing |-> 11,
   movementProcessing |-> 8, bodyPositionProcessing |-> 8,
   oralSensitivityProcessing |-> 10, behavioralResponses |-> 9,
   socialEmotionalResponses |-> 14, attentionResponses |-> 10]

\* no two responses of the list carry the same item id
DistinctIds(rs) == \A i, j \in 1..Len(rs) : rs[i].itemId = rs[j].itemId => i = j

C8_RangeWarnings ==
  call.op = "validateScores" =>
    LET w == call.ret
        score(sec) == results.sectionScores[sec].num
        outside == {sec \in Sections : \/ score(sec) < ScoringItemCount[sec]
                                       \/ score(sec) > 5 * ScoringItemCount[sec]}
        total == score("auditoryProcessing") + score("visualProcessing")
                 + score("tactileProcessing") + score("movementProcessing")
                 + score("bodyPositionProcessing") + score("oralSensitivityProcessing")
                 + score("behavioralResponses") + score("socialEmotionalResponses")
                 + score("attentionResponses")
        sectionWarnings(sec) == {k \in 1..Len(w) : /\ "section" \in DOMAIN w[k]
                                                   /\ w[k].section = sec}
        totalWarnings == {k \in 1..Len(w) : "section" \notin DOMAIN w[k]}
    IN /\ \A sec \in Sections : IsNum(results.sectionScores[sec])
       /\ \A sec \in Sections :
            Cardinality(sectionWarnings(sec)) = IF sec \in outside THEN 1 ELSE 0
       /\ \A sec \in Sections : \A k \in sectionWarnings(sec) :
            /\ w[k].min = ScoringItemCount[sec]
            /\ w[k].max = 5 * ScoringItemCount[sec]
            /\ w[k].score = ToString(score(sec))
       /\ Cardinality(totalWarnings) = IF total < 84 \/ total > 420 THEN 1 ELSE 0
       /\ \A k \in totalWarnings : w[k].min = 84 /\ w[k].max = 420
       /\ Len(w) = Cardinality(outside) + Cardinality(totalWarnings)

\* C8 witness: one section below and one above its range with the total
\* inside 84..420 give exactly two warnings
C8_Witness ==
  /\ call.op = "validateScores"
  /\ results.sectionScores["auditoryProcessing"] = Num(7)
  /\ results.sectionScores["visualProcessing"] = Num(31)
  /\ \A sec \in Sections \ {"auditoryProcessing", "visualProcessing"} :
       results.sectionScores[sec] = Num(sectionRanges[sec].max)
  /\ Len(call.ret) = 2

\* the score the assessment persists for a section (0 when it has none)
PersistedScore(a, sec) ==
  IF (sec \o "RawScore") \in DOMAIN a THEN JsOrZero(a[sec \o "RawScore"]) ELSE Num(0)

\* C9: with no invalid responses, validateAssessmentScoreConsistency returns
\* one error per section whose persisted score differs from the recomputed
\* score, naming the section and both values, and isValid is false iff at
\* least one section differs.
C9_ScoreConsistency ==
  (/\ call.op = "validateAssessmentScoreConsistency"
   /\ calculateScores(responses).invalidResponses = <<>>)
  => LET recomputed == calculateScores(responses).sectionScores
         differing == {sec \in Sections : PersistedScore(assessment, sec) # recomputed[sec]}
         e == call.ret.errors
     IN /\ call.ret.isValid = (differing = {})
        /\ Len(e) = Cardinality(differing)
        /\ \A sec \in differing : \E k \in 1..Len(e) :
             e[k] = ScoreMismatchError(sec, PersistedScore(assessment, sec), recomputed[sec])

\* the item ids that occur more than once in the list
DuplicatedIds(rs) ==
  {rs[i].itemId : i \in {i \in 1..Len(rs) : \E j \in 1..Len(rs) : j # i /\ rs[j].itemId = rs[i].itemId}}

\* C10: validateResponseCompleteness produces a duplicate error iff some
\* item id occurs more than once; there is exactly one such error and it
\* names every duplicated id exactly once.
C10_DuplicatesReportedOnce ==
  call.op = "validateResponseCompleteness" =>
    LET e == call.ret.errors
        dupErrors == {k \in 1..Len(e) : e[k].template = DuplicateResponsesError(<<>>).template}
    IN /\ (dupErrors # {}) <=> (DuplicatedIds(responses) # {})
       /\ Cardinality(dupErrors) <= 1
       /\ \A k \in dupErrors :
            /\ Elements(e[k].ids) = DuplicatedIds(responses)
            /\ Len(e[k].ids) = Cardinality(DuplicatedIds(responses))
       /\ DuplicatedIds(responses) # {} => ~call.ret.isValid

\* C10 witness: item 9 three times and item 10 twice; the error names 9 and
\* 10 once each
C10_Witness ==
  /\ call.op = "validateResponseCompleteness"
  /\ Len(responses) = 4
  /\ responses[1].itemId = 9 /\ responses[2].itemId = 10
  /\ responses[3].itemId = 9 /\ responses[4].itemId = 10
  /\ \E k \in 1..Len(call.ret.errors) : call.ret.errors[k] = DuplicateResponsesError(<<9, 10>>)

\* the calendar reading of a date, ordered as time is
Reading(d) == <<d.year, d.month, d.date, d.hours>>

RECURSIVE Before(_, _)
Before(a, b) ==
  a # <<>> /\ (a[1] < b[1] \/ (a[1] = b[1] /\ Before(Tail(a), Tail(b))))

\* the whole calendar years from the birth date to now: the anniversaries
\* of the birth day that are not after the day of now
AgeInYears(now, birth) ==
  Cardinality({y \in (birth.year + 1)..now.year :
                 ~Before(<<now.year, now.month, now.date>>, <<y, birth.month, birth.date>>)})

\* C11: validateChildAgeConsistency returns isValid = true exactly when the
\* birth date is not after now and the age in whole calendar years is in
\* 3..14; a future birth date is reported with the future-date error, an age
\* outside 3..14 with the out-of-range error naming the age, and an
\* expected age that differs from the computed one adds one warning and
\* changes nothing else.
C11_ChildAgeConsistency ==
  call.op = "validateChildAgeConsistency" =>
    LET ret == call.ret
        future == Before(Reading(today), Reading(birthDate))
        age == AgeInYears(today, birthDate)
    IN /\ ret.isValid <=> (~future /\ age \in 3..14)
       /\ future <=> BirthDateInFutureError \in Elements(ret.errors)
       /\ ~future =>
            /\ ret.errors = IF age \in 3..14 THEN <<>> ELSE <<AgeOutOfRangeError(Num(age))>>
            /\ ret.warnings =
                 IF call.expectedAge \in {Undefined, Num(age)} THEN <<>>
                 ELSE <<AgeMismatchWarning(call.expectedAge, Num(age))>>
       /\ ret.checkedFields = <<"birthDate", "age">>

\* a child born exactly 3 years before now is accepted, and an expected age
\* of 2 only adds the warning
C11_Witness ==
  /\ call.op = "validateChildAgeConsistency"
  /\ today = DateOf(2025, 2, 1, 12)
  /\ birthDate = DateOf(2022, 2, 1, 12)
  /\ call.expectedAge = Num(2)
  /\ call.ret.isValid
  /\ call.ret.errors = <<>>
  /\ call.ret.warnings = <<AgeMismatchWarning(Num(2), Num(3))>>

\* the ids the taxonomy gives a section
ScoringRanges == [s \in Sections |-> {id \in DOMAIN sectionMap : sectionMap[id] = s}]

\* the same ranges, each stretched over the excluded item that follows it
RawRanges ==
  [s \in Sections |-> ScoringRanges[s] \cup {id \in {15, 86} : id - 1 \in ScoringRanges[s]}]

\* the completeness check counted the responses of every section over the
\* given id range: the no-responses error appears exactly for the sections
\* with no response in the range, and every warning reports the number of
\* responses in the range over the size of the range
CountsOver(ranges) ==
  \A s \in Sections :
    LET count == Cardinality({i \in 1..Len(responses) : responses[i].itemId \in ranges[s]})
        w == call.ret.warnings
    IN /\ (count = 0) <=> (NoResponsesError(s) \in Elements(call.ret.errors))
       /\ \A k \in 1..Len(w) :
            w[k].section = s =>
              w[k].actual = count /\ w[k].expectedCount = Cardinality(ranges[s])

\* C12 as stated: validateResponseCompleteness counts each section over its
\* raw id range, so item 15 counts for visualProcessing (9..15, 7 items) and
\* item 86 for attentionResponses (76..86, 11 items).
C12_CountsOverRawRanges ==
  call.op = "validateResponseCompleteness" => CountsOver(RawRanges)

\* C12: validateResponseCompleteness counts each section over its scoring id
\* range: items 15 and 86 count for no section, visualProcessing is counted
\* over 9..14 with denominator 6 and attentionResponses over 76..85 with
\* denominator 10.
C12_CountsOverScoringRanges ==
  call.op = "validateResponseCompleteness" => CountsOver(ScoringRanges)

\* items 9 and 15 answered: visualProcessing is reported as 1 of 6
C12_Witness ==
  /\ call.op = "validateResponseCompleteness"
  /\ Len(responses) = 2
  /\ responses[1].itemId = 9 /\ responses[2].itemId = 15
  /\ IncompleteWarning("visualProcessing", 1, 6) \in Elements(call.ret.warnings)

\* C13: validateResponseCompleteness records, for each of the 9 sections, the
\* no-responses error (and isValid = false) iff no response falls in the
\* section, and a warning, without that error, iff at least one response
\* falls in the section and fewer than 75% of the section's items are
\* answered; it records an error naming the ids, and isValid = false,
\* whenever some item id is outside 1..86.
C13_SectionErrorsAndWarnings ==
  call.op = "validateResponseCompleteness" =>
    LET ret == call.ret
        ids == [i \in 1..Len(responses) |-> responses[i].itemId]
        outside == {i \in 1..Len(ids) : ids[i] \notin 1..86}
        idErrors == {k \in 1..Len(ret.errors) :
                       ret.errors[k].template = InvalidItemIdsError(<<>>).template}
    IN /\ \A s \in Sections :
            LET count == Cardinality({i \in 1..Len(ids) :
                                        ids[i] \in DOMAIN sectionMap /\ sectionMap[ids[i]] = s})
                items == Cardinality({id \in DOMAIN sectionMap : sectionMap[id] = s})
                hasError == NoResponsesError(s) \in Elements(ret.errors)
                hasWarning == \E k \in 1..Len(ret.warnings) : ret.warnings[k].section = s
            IN /\ hasError <=> count = 0
               /\ hasError => ~ret.isValid
               /\ hasWarning <=> (count >= 1 /\ 4 * count < 3 * items)
               /\ ~(hasError /\ hasWarning)
       /\ (outside # {}) <=> (idErrors # {})
       /\ outside # {} =>
            /\ ~ret.isValid
            /\ \A k \in idErrors : Elements(ret.errors[k].ids) = {ids[i] : i \in outside}

\* four of the six visual items and id 87: a warning and no error for
\* visualProcessing, the no-responses error for auditoryProcessing and the
\* error naming 87
C13_Witness ==
  /\ call.op = "validateResponseCompleteness"
  /\ [i \in 1..Len(responses) |-> responses[i].itemId] = <<9, 10, 11, 12, 87>>
  /\ IncompleteWarning("visualProcessing", 4, 6) \in Elements(call.ret.warnings)
  /\ NoResponsesError("visualProcessing") \notin Elements(call.ret.errors)
  /\ NoResponsesError("auditoryProcessing") \in Elements(call.ret.errors)
  /\ InvalidItemIdsError(<<87>>) \in Elements(call.ret.errors)
  /\ ~call.ret.isValid

\* the hours from 1970-01-01 00:00 to a date, counted year by year and
\* month by month
RECURSIVE DaysBeforeYear(_)
DaysBeforeYear(y) ==
  IF y <= 1970 THEN 0 ELSE DaysBeforeYear(y - 1) + (IF IsLeapYear(y - 1) THEN 366 ELSE 365)

RECURSIVE DaysBeforeMonth(_, _)
DaysBeforeMonth(y, m) == IF m = 0 THEN 0 ELSE DaysBeforeMonth(y, m - 1) + DaysInMonth(y, m - 1)

HoursSinceEpoch(d) ==
  (DaysBeforeYear(d.year) + DaysBeforeMonth(d.year, d.month) + d.date - 1) * 24 + d.hours

\* C14: validateAssessmentDateConsistency returns isValid = false exactly
\* when the assessment date is after now or before the child's birth date,
\* with one error for each of the two; an assessment more than 730 whole
\* days old and a creation timestamp more than 30 days away from the
\* assessment date each add a warning and nothing else.
C14_AssessmentDateConsistency ==
  call.op = "validateAssessmentDateConsistency" =>
    LET ret == call.ret
        afterNow == Before(Reading(today), Reading(assessmentDate))
        beforeBirth == Before(Reading(assessmentDate), Reading(birthDate))
        ageInHours == HoursSinceEpoch(today) - HoursSinceEpoch(assessmentDate)
        old == ageInHours >= 731 * 24
        apart == IF createdAt = Undefined THEN 0
                 ELSE HoursSinceEpoch(assessmentDate) - HoursSinceEpoch(createdAt)
        differs == apart > 30 * 24 \/ apart < -(30 * 24)
        oldWarnings == {k \in 1..Len(ret.warnings) :
                          ret.warnings[k].template = AssessmentOldWarning(Num(0)).template}
        creationWarnings == {k \in 1..Len(ret.warnings) :
                               ret.warnings[k].template = CreationDiffersWarning(Num(0)).template}
    IN /\ ~ret.isValid <=> (afterNow \/ beforeBirth)
       /\ ret.errors = (IF afterNow THEN <<AssessmentInFutureError>> ELSE <<>>)
                          \o (IF beforeBirth THEN <<AssessmentBeforeBirthError>> ELSE <<>>)
       /\ (oldWarnings # {}) <=> old
       /\ (creationWarnings # {}) <=> differs
       /\ Len(ret.warnings) = Cardinality(oldWarnings) + Cardinality(creationWarnings)
       /\ Cardinality(oldWarnings) <= 1 /\ Cardinality(creationWarnings) <= 1

\* an assessment of 731 days ago, after the birth date and created 30 days
\* and 23 hours later: both warnings, no error, isValid = true
C14_Witness ==
  /\ call.op = "validateAssessmentDateConsistency"
  /\ today = DateOf(2026, 2, 1, 12)
  /\ assessmentDate = DateOf(2024, 1, 29, 12)
  /\ birthDate = DateOf(2012, 2, 1, 12)
  /\ createdAt = DateOf(2024, 2, 31, 11)
  /\ call.ret.isValid
  /\ call.ret.errors = <<>>
  /\ Len(call.ret.warnings) = 2

\* C15: validateFullAssessment runs the score-consistency and completeness
\* checks always and the age and date checks iff a birth date is supplied;
\* its isValid is the conjunction of theirs, its errors and its warnings are
\* theirs concatenated in the order of the checks, and its checkedFields
\* are the union of theirs, each field once.
C15_FullAssessment ==
  call.op = "validateFullAssessment" =>
    LET ret == call.ret
        score == validateAssessmentScoreConsistency(assessment, responses)
        complete == validateResponseCompleteness(responses)
        age == validateChildAgeConsistency(birthDate, Undefined, today)
        date == validateAssessmentDateConsistency(assessmentDate, birthDate, createdAt, today)
    IN IF birthDate = Undefined
       THEN /\ ret.isValid = (score.isValid /\ complete.isValid)
            /\ ret.errors = score.errors \o complete.errors
            /\ ret.warnings = score.warnings \o complete.warnings
            /\ Elements(ret.checkedFields) =
                 Elements(score.checkedFields) \cup Elements(complete.checkedFields)
            /\ Len(ret.checkedFields) = Cardinality(Elements(ret.checkedFields))
       ELSE /\ ret.isValid = (score.isValid /\ complete.isValid /\ age.isValid /\ date.isValid)
            /\ ret.errors = score.errors \o complete.errors \o age.errors \o date.errors
            /\ ret.warnings = score.warnings \o complete.warnings \o age.warnings \o date.warnings
            /\ Elements(ret.checkedFields) =
                 Elements(score.checkedFields) \cup Elements(complete.checkedFields)
                   \cup Elements(age.checkedFields) \cup Elements(date.checkedFields)
            /\ Len(ret.checkedFields) = Cardinality(Elements(ret.checkedFields))

\* a child of 2 with an assessment dated before the birth: the age error and
\* the date error follow the errors of the two unconditional checks, and
\* the fields of all the checks are reported
C15_Witness ==
  /\ call.op = "validateFullAssessment"
  /\ birthDate = DateOf(2024, 2, 1, 12)
  /\ assessmentDate = DateOf(2023, 1, 28, 12)
  /\ Len(responses) = 1 /\ responses[1].itemId = 9
  /\ ~call.ret.isValid
  /\ AgeOutOfRangeError(Num(2)) \in Elements(call.ret.errors)
  /\ call.ret.errors[Len(call.ret.errors)] = AssessmentBeforeBirthError
  /\ NoResponsesError("auditoryProcessing") \in Elements(call.ret.errors)
  /\ {"responses", "age", "assessmentDate"} \subseteq Elements(call.ret.checkedFields)

\* the strings of a list, each followed by the separator except the last
RECURSIVE Separated(_, _)
Separated(list, sep) ==
  IF list = <<>> THEN ""
  ELSE list[1] \o (IF Len(list) > 1 THEN sep ELSE "") \o Separated(Tail(list), sep)

\* C16: throwIfInvalid raises a DataConsistencyError iff the result has
\* isValid = false; the message is the context followed by ": ", when a
\* non-empty context is given, and the errors joined by "; "; a valid
\* result with warnings raises nothing and its warnings are logged.
C16_ThrowIfInvalid ==
  call.op = "throwIfInvalid" =>
    LET ret == call.ret
        given == call.context # Undefined /\ call.context # Str("")
    IN /\ ret.threw <=> ~validationResult.isValid
       /\ ret.threw =>
            /\ ret.error.name = "DataConsistencyError"
            /\ ret.error.message =
                 (IF given THEN call.context.str \o ": " ELSE "")
                   \o Separated(validationResult.errors, "; ")
            /\ log = <<>>
       /\ ~ret.threw =>
            IF validationResult.warnings = <<>> THEN log = <<>>
            ELSE /\ Len(log) = 1
                 /\ log[1].level = "warn"
                 /\ log[1].meta.warnings = validationResult.warnings

\* an invalid result with two errors and a context: the error raised reads
\* "createAssessment: <first>; <second>"
C16_Witness ==
  /\ call.op = "throwIfInvalid"
  /\ call.context = Str("createAssessment")
  /\ ~validationResult.isValid
  /\ validationResult.errors =
       <<"Birth date cannot be in the future", "No responses found for auditoryProcessing section">>
  /\ call.ret.threw
  /\ call.ret.error.message =
       "createAssessment: Birth date cannot be in the future; No responses found for auditoryProcessing section"

\* C17: range warnings never block processing: whenever every response of
\* the submission is valid, transformPayloadForService raises nothing and
\* returns the payload with the computed raw scores, whether or not the
\* scores fall outside the expected ranges.
C17_RangeWarningsNeverBlock ==
  call.op = "transformPayloadForService" =>
    LET scoringResults == calculateScores(responses)
    IN scoringResults.invalidResponses = <<>> =>
         /\ ~call.ret.threw
         /\ call.ret.value.responses = responses
         /\ call.ret.value.rawScores = scoringResults.sectionScores

\* C18: the scoring engine is stateless: whatever the interleaving of the
\* invocations, each one returns the AssessmentResults an isolated call of
\* calculateScores returns for its list, and two invocations on the same
\* list return identical results.
C18_Stateless ==
  \A c \in Callers :
    invocations[c].pc = "returned" =>
      /\ invocations[c].ret = calculateScores(invocations[c].args)
      /\ \A d \in Callers :
           (invocations[d].pc = "returned" /\ invocations[d].args = invocations[c].args)
             => invocations[d].ret = invocations[c].ret

\* caller 1 has its result for a list of two responses while caller 2 is in
\* the middle of its quadrant loop on the same list
C18_Witness ==
  /\ invocations[1].pc = "returned"
  /\ Len(invocations[1].args) = 2
  /\ invocations[1].ret.sectionScores.auditoryProcessing = Num(5)
  /\ invocations[2].pc = "quadrant"
  /\ invocations[2].index = 1
  /\ invocations[2].args = invocations[1].args

\* the items the taxonomy assigns a quadrant
ItemsWithQuadrant == {id \in 1..86 : id \in DOMAIN quadrantMap}

\* the quadrant table assigns quadrants to some of the 86 items, not to all
SparseQuadrants ==
  /\ ItemsWithQuadrant # {}
  /\ ItemsWithQuadrant # 1..86
  /\ \A id \in ItemsWithQuadrant : quadrantMap[id] \in Quadrants

C20_QuadrantScores ==
  call.op = "calculateQuadrantScores" =>
    /\ DOMAIN call.ret.scores = Quadrants
    /\ Cardinality(Quadrants) = 4
    /\ (/\ responses # <<>>
        /\ responses[Len(responses)].itemId \in 1..86
        /\ Recognized(responses[Len(responses)].response))
       => LET last == responses[Len(responses)]
              before == calculateQuadrantScores(SubSeq(responses, 1, Len(responses) - 1))
              v == Num(TableValue(last.response))
              quadrant == CASE last.itemId = 15 -> "sensoryAvoidance"
                            [] last.itemId = 86 -> "registrationIncreased"
                            [] OTHER -> quadrantMap[last.itemId]
          IN /\ call.ret.invalidResponses = before.invalidResponses
             /\ IF last.itemId \in DOMAIN quadrantMap \cup {15, 86}
                THEN call.ret.scores = [before.scores EXCEPT ![quadrant] = JsAdd(@, v)]
                ELSE call.ret.scores = before.scores

\* item 86 answered "quase sempre" and then item 10, which has no quadrant,
\* answered "quase sempre": 5 in registrationIncreased, 0 in the other three
\* quadrants and no error
C20_Witness ==
  /\ call.op = "calculateQuadrantScores"
  /\ responses = <<[itemId |-> 86, response |-> quaseSempre],
                   [itemId |-> 10, response |-> quaseSempre]>>
  /\ 10 \notin DOMAIN quadrantMap
  /\ call.ret.scores = [q \in Quadrants |-> IF q = "registrationIncreased"
                                             THEN Num(5) ELSE Num(0)]
  /\ call.ret.invalidResponses = <<>>

\* C21: whenever a legacy mapper (the one of scoringService.ts, the
\* enum-keyed one) returns a value in 1..5 for a label the canonical
\* mapResponseToValue accepts, the canonical mapper returns the same value;
\* and for a label the canonical mapper rejects, no legacy mapper returns a
\* value in 1..5 (it throws, or returns the 0 that adds nothing to a score).
C21_LegacyMappersAreAliases ==
  call.op \in {"scoringService.mapResponseToValue", "enumScoring.mapResponseToValue"} =>
    LET canonical == mapResponseToValue(label)
    IN /\ (/\ ~call.ret.threw
            /\ IsNum(call.ret.value) /\ call.ret.value.num \in 1..5
            /\ ~canonical.threw)
           => call.ret.value = canonical.value
       /\ canonical.threw =>
            \/ call.ret.threw
            \/ ~(IsNum(call.ret.value) /\ call.ret.value.num \in 1..5)

\* C22: the invalidResponses returned by calculateSectionScores and by
\* calculateScores never contain a 'No section mapping for item <id>' entry.
C22_NoSectionMappingUnreachable ==
  call.op \in {"calculateSectionScores", "calculateScores"} =>
    \A i \in 1..Len(call.ret.invalidResponses) :
      call.ret.invalidResponses[i].template # NoSectionMappingMessage(0).template

\* item 86, which the table gives no section, answered "quase sempre": the
\* section calculator returns no message and no score
C22_Witness ==
  /\ call.op = "calculateSectionScores"
  /\ responses = <<[itemId |-> 86, response |-> quaseSempre]>>
  /\ validateItemId(86) /\ 86 \notin DOMAIN sectionMap
  /\ call.ret.invalidResponses = <<>>
  /\ call.ret.scores = [sec \in Sections |-> Num(0)]

\* C23: in calculateSectionScores a single response with an id outside 1..86
\* records 'Invalid item ID: <id>' and nothing else, whatever its label, and
\* a single response for item 15 or 86 records no invalid-response entry,
\* whatever its label; neither changes a score.
C23_StepOrder ==
  (call.op = "calculateSectionScores" /\ Len(responses) = 1) =>
    LET r == responses[1]
    IN /\ r.itemId \notin 1..86 =>
            /\ call.ret.invalidResponses = <<InvalidItemIdMessage(r.itemId)>>
            /\ call.ret.scores = [sec \in Sections |-> Num(0)]
       /\ r.itemId \in {15, 86} =>
            /\ call.ret.invalidResponses = <<>>
            /\ call.ret.scores = [sec \in Sections |-> Num(0)]

\* item 15 answered with a label outside the vocabulary: the mapper would
\* throw, and the section calculator records nothing
C23_Witness ==
  /\ call.op = "calculateSectionScores"
  /\ responses = <<[itemId |-> 15, response |-> sometimes]>>
  /\ mapResponseToValue(sometimes).threw
  /\ call.ret.invalidResponses = <<>>

\* the sum of the section scores that are numbers
RECURSIVE SumOfScores(_, _)
SumOfScores(scores, n) ==
  IF n = 0 THEN 0
  ELSE SumOfScores(scores, n - 1)
         + (IF IsNum(scores[SectionNames[n]]) THEN scores[SectionNames[n]].num ELSE 0)

\* every one of the 84 scoring items is answered with a label of value 1..5
EveryScoringItemAnswered(rs) ==
  \A id \in DOMAIN sectionMap :
    \E i \in 1..Len(rs) :
      /\ rs[i].itemId = id
      /\ Recognized(rs[i].response)
      /\ TableValue(rs[i].response) \in 1..5

\* C24: for a response list with pairwise distinct item ids, every section
\* score calculateScores returns is a number at most the maximum of the
\* section's expected range, and the 9 scores sum to at most 420; when, in
\* addition, each of the 84 scoring items is answered with a value in 1..5,
\* validateScores returns no warning for the result.
C24_DistinctIdsWithinRanges ==
  (call.op = "calculateScores" /\ DistinctIds(responses)) =>
    /\ \A sec \in Sections :
         /\ IsNum(call.ret.sectionScores[sec])
         /\ call.ret.sectionScores[sec].num <= sectionRanges[sec].max
    /\ SumOfScores(call.ret.sectionScores, Len(SectionNames)) <= totalRange.max
    /\ EveryScoringItemAnswered(responses) => validateScores(call.ret) = <<>>

\* C25: in the ConsistencyCheckResult each of the five checks returns,
\* isValid is true iff the errors list is empty, whatever the warnings.
C25_ValidIffNoErrors ==
  call.op \in {"validateAssessmentScoreConsistency", "validateChildAgeConsistency",
               "validateResponseCompleteness", "validateAssessmentDateConsistency",
               "validateFullAssessment"}
    => (call.ret.isValid <=> call.ret.errors = <<>>)

\* the age check of a child of 14 expected to be 2: a warning, no error, and
\* a valid result
C25_Witness ==
  /\ call.op = "validateChildAgeConsistency"
  /\ call.expectedAge = Num(2)
  /\ call.ret.warnings = <<AgeMismatchWarning(Num(2), Num(14))>>
  /\ call.ret.errors = <<>>
  /\ call.ret.isValid

\* C26: the validResponses calculateScores reports is the number of
\* responses of the list whose item id is an integer in 1..86 and whose
\* label is recognized, and 0 <= validResponses <= totalItems.
C26_ValidResponsesCount ==
  call.op = "calculateScores" =>
    /\ call.ret.validResponses =
         Cardinality({i \in 1..Len(responses) :
                        /\ responses[i].itemId \in 1..86
                        /\ Recognized(responses[i].response)})
    /\ 0 <= call.ret.validResponses
    /\ call.ret.validResponses <= call.ret.totalItems

\* C27: an assessment created from a response list, re-read with its
\* responses while it is as createAssessment stored it, passes
\* validateAssessmentScoreConsistency: the check reports no error.
C27_PersistedScoresRoundTrip ==
  (/\ call.op = "validateStoredAssessment"
   /\ call.read = responses
   /\ \E a \in database.sensory_assessments :
        /\ a.id = call.id
        /\ a.scores = NewAssessment(calculateScores(responses).sectionScores))
    => call.ret.isValid /\ call.ret.errors = <<>>

\* C28: after createAssessment and updateAssessment calls, the eight stored
\* section raw scores of every assessment are the section scores computed
\* from the responses stored for it.
C28_NoStaleScores ==
  \A a \in database.sensory_assessments :
    a.scores = NewAssessment(calculateScores(
                 RowsToResponses({r \in database.sensory_responses :
                                    r.assessment_id = a.id})).sectionScores)

\* C29: the calls of user U leave the stored responses of the assessments
\* of other users as they were: none is created, modified or deleted.
C29_OwnershipIsolation ==
  LET Foreign(db) ==
        {r \in db.sensory_responses : ~AssessmentCheck(db, r.assessment_id, U)}
  IN Foreign(database) = Foreign(StoredAssessments)

\* C30: the refinement of childSchema.birthDate, validateChildAge and
\* validateChildAgeConsistency each accept a birth date exactly when the age
\* in whole calendar years is in 3..14.
C30_AgeRulesAgree ==
  LET inRange == AgeInYears(today, birthDate) \in 3..14
  IN /\ call.op = "childSchema.birthDate" => (call.ret.accepted <=> inRange)
     /\ call.op = "validateChildAge" => (~call.ret.threw <=> inRange)
     /\ call.op = "validateChildAgeConsistency" => (call.ret.isValid <=> inRange)

====
